---- MODULE Spec2Model ----
(***************************************************************************)
(* Ingestion and reconciliation engine of Silicon Trace: parse_excel       *)
(* (backend/parser.py) and the upsert of upload_file (backend/main.py).    *)
(*                                                                         *)
(* Text is modelled as a sequence of one-character strings, so that the    *)
(* program's string operations (strip, lower, split, substring tests,      *)
(* regular expressions, concatenation) are computed and not assumed.       *)
(* Keys the program itself adds to a field map ("_source_sheet", ...) are  *)
(* written <<"_", "source_sheet">>: the program only ever tests them for   *)
(* a leading underscore and for equality.                                  *)
(***************************************************************************)
EXTENDS Integers, Sequences, FiniteSets, TLC

(***************************************************************************)
(* Characters and the string primitives of the Python runtime.             *)
(***************************************************************************)
UpperChars ==
  <<"A","B","C","D","E","F","G","H","I","J","K","L","M","N","O","P","Q","R","S","T","U","V","W","X","Y","Z">>
LowerChars ==
  <<"a","b","c","d","e","f","g","h","i","j","k","l","m","n","o","p","q","r","s","t","u","v","w","x","y","z">>
DigitSet ==
  {"0","1","2","3","4","5","6","7","8","9"}
UpperSet == {UpperChars[i] : i \in 1..26}
LowerSet == {LowerChars[i] : i \in 1..26}
AlnumSet == UpperSet \cup LowerSet \cup DigitSet
SpaceSet == {" ", "\n", "\t"}

\* The value None of the program; no text equals it.
None == <<"None">>

\* bool(x) of a text-or-None value: None and "" are false.
Truthy(x) == x # None /\ x # <<>>

LowerChar(c) ==
  IF c \in UpperSet THEN LowerChars[CHOOSE i \in 1..26 : UpperChars[i] = c] ELSE c
UpperChar(c) ==
  IF c \in LowerSet THEN UpperChars[CHOOSE i \in 1..26 : LowerChars[i] = c] ELSE c
Lower(s) == [i \in 1..Len(s) |-> LowerChar(s[i])]
Upper(s) == [i \in 1..Len(s) |-> UpperChar(s[i])]

RECURSIVE LStrip(_)
LStrip(s) ==
  IF s = <<>> THEN s
  ELSE IF Head(s) \in SpaceSet THEN LStrip(Tail(s)) ELSE s
RECURSIVE RStrip(_)
RStrip(s) ==
  IF s = <<>> THEN s
  ELSE IF s[Len(s)] \in SpaceSet THEN RStrip(SubSeq(s, 1, Len(s) - 1)) ELSE s
Strip(s) == RStrip(LStrip(s))

\* sub in s
Contains(sub, s) ==
  \E i \in 0..(Len(s) - Len(sub)) : SubSeq(s, i + 1, i + Len(sub)) = sub
StartsWith(p, s) == Len(p) <= Len(s) /\ SubSeq(s, 1, Len(p)) = p
\* any(p in s for p in patterns)
ContainsAny(patterns, s) == \E k \in 1..Len(patterns) : Contains(patterns[k], s)
\* s in list
InList(s, list) == \E k \in 1..Len(list) : list[k] = s

\* The non-empty maximal runs of s between characters of seps, in order.
RECURSIVE SplitAcc(_, _, _, _)
SplitAcc(s, seps, cur, acc) ==
  IF s = <<>> THEN (IF cur = <<>> THEN acc ELSE Append(acc, cur))
  ELSE IF Head(s) \in seps
       THEN SplitAcc(Tail(s), seps, <<>>, IF cur = <<>> THEN acc ELSE Append(acc, cur))
       ELSE SplitAcc(Tail(s), seps, Append(cur, Head(s)), acc)
Split(s, seps) == SplitAcc(s, seps, <<>>, <<>>)

\* The non-empty maximal runs of characters of keep in s, in order.
RECURSIVE RunsAcc(_, _, _, _)
RunsAcc(s, keep, cur, acc) ==
  IF s = <<>> THEN (IF cur = <<>> THEN acc ELSE Append(acc, cur))
  ELSE IF Head(s) \in keep
       THEN RunsAcc(Tail(s), keep, Append(cur, Head(s)), acc)
       ELSE RunsAcc(Tail(s), keep, <<>>, IF cur = <<>> THEN acc ELSE Append(acc, cur))
Runs(s, keep) == RunsAcc(s, keep, <<>>, <<>>)

\* sep.join(parts)
RECURSIVE Join(_, _)
Join(sep, parts) ==
  IF parts = <<>> THEN <<>>
  ELSE IF Len(parts) = 1 THEN parts[1]
  ELSE parts[1] \o sep \o Join(sep, Tail(parts))

\* s.replace(c, "") for a one-character c
RemoveChars(s, cs) == SelectSeq(s, LAMBDA c : c \notin cs)

\* s.split('\n')[0]
RECURSIVE FirstLine(_)
FirstLine(s) ==
  IF s = <<>> THEN s
  ELSE IF Head(s) = "\n" THEN <<>> ELSE <<Head(s)>> \o FirstLine(Tail(s))

\* s.replace(sub, "") for a non-empty sub: leftmost non-overlapping occurrences
RECURSIVE RemoveAll(_, _)
RemoveAll(s, sub) ==
  IF Len(s) < Len(sub) THEN s
  ELSE IF SubSeq(s, 1, Len(sub)) = sub
       THEN RemoveAll(SubSeq(s, Len(sub) + 1, Len(s)), sub)
       ELSE <<Head(s)>> \o RemoveAll(Tail(s), sub)

(***************************************************************************)
(* Identity value validation and extraction (parser.py, lines 21-207).     *)
(***************************************************************************)
UpperAlnumSet == UpperSet \cup DigitSet

\* AMD_CPU_SERIAL_PATTERN: ^[0-9][A-Z0-9]{11}_\d{3}-\d{12}$
AMD_CPU_SERIAL_PATTERN(s) ==
  /\ Len(s) = 29
  /\ s[1] \in DigitSet
  /\ \A i \in 2..12 : s[i] \in UpperAlnumSet
  /\ s[13] = "_"
  /\ \A i \in 14..16 : s[i] \in DigitSet
  /\ s[17] = "-"
  /\ \A i \in 18..29 : s[i] \in DigitSet

\* AMD_CPU_SERIAL_SEARCH_PATTERN.search(s): [0-9][A-Z0-9]{9,}(?:_\d{3}(?:-\d{1,12})?)?
\* matches somewhere iff a digit is followed by nine characters of [A-Z0-9].
AMD_CPU_SERIAL_SEARCH_PATTERN(s) ==
  \E i \in 1..(Len(s) - 9) :
     /\ s[i] \in DigitSet
     /\ \A j \in (i + 1)..(i + 9) : s[j] \in UpperAlnumSet

\* A validator that accepts every non-empty value.
is_valid_amd_cpu_serial_Any(serial) ==
  Truthy(serial)
\* flexible_pattern.match(serial.strip()): ^[0-9][A-Z0-9]{9,}
is_valid_amd_cpu_serial(serial) ==
  /\ Truthy(serial)
  /\ LET s == Strip(serial) IN
       /\ Len(s) >= 10
       /\ s[1] \in DigitSet
       /\ \A j \in 2..10 : s[j] \in UpperAlnumSet

legend_patterns ==
  << <<"k","e","y">>, <<"l","a","b","e","l">>, <<"l","e","g","e","n","d">>,
     <<"r","e","f","e","r","e","n","c","e">>, <<"n","o","t","e">>, <<"c","o","l","o","r">>,
     <<"p","r","o","m">>, <<"d","e","g","r","a","d","a","t","i","o","n">>, <<"c","o","v","_">>,
     <<"n","f","f">>, <<"e","s","c">>, <<"d","e","s","c","r","i","p","t","i","o","n">>,
     <<"d","e","f","i","n","i","t","i","o","n">>, <<"e","x","p","l","a","n","a","t","i","o","n">> >>

is_legend_or_reference_row(serial) ==
  /\ Truthy(serial)
  /\ ContainsAny(legend_patterns, Strip(Lower(serial)))

\* The score extract_best_serial_from_text gives one word.
WordScore(word) ==
    (IF StartsWith(<<"9">>, word) THEN 30 ELSE 0)
  + (IF Contains(<<"_">>, word) THEN 20 ELSE 0)
  + (IF Contains(<<"-">>, word) THEN 10 ELSE 0)
  + (IF 13 <= Len(word) /\ Len(word) <= 35 THEN 10 ELSE 0)
  + (IF 10 * Len(SelectSeq(word, LAMBDA c : c \in AlnumSet)) > 8 * Len(word) THEN 10 ELSE 0)
  + (IF AMD_CPU_SERIAL_SEARCH_PATTERN(word) THEN 30 ELSE 0)

\* The words the extractor scores: split on whitespace, comma and semicolon,
\* words shorter than 10 characters left out.
SerialWords(text) ==
  SelectSeq(Split(Strip(text), SpaceSet \cup {",", ";"}), LAMBDA w : Len(w) >= 10)

\* best_score after the loop over the words (0 when no word scores).
BestScore(text) ==
  LET Greatest(ws) ==
        IF ws = <<>> THEN 0
        ELSE WordScore(ws[CHOOSE k \in 1..Len(ws) :
                             \A j \in 1..Len(ws) : WordScore(ws[j]) <= WordScore(ws[k])]) IN
  Greatest(SerialWords(text))

MinSerialScore == 40

\* An extractor that returns the trimmed text whole.
extract_best_serial_from_text_Whole(text) ==
  IF ~Truthy(text) THEN None ELSE Strip(text)
\* The first word with the greatest score, when that score is at least 40.
extract_best_serial_from_text(text) ==
  IF ~Truthy(text) THEN None
  ELSE LET best_serial(ws, best_score) ==
             IF best_score >= MinSerialScore
             THEN ws[CHOOSE k \in 1..Len(ws) :
                       /\ WordScore(ws[k]) = best_score
                       /\ \A j \in 1..(k - 1) : WordScore(ws[j]) < best_score]
             ELSE None IN
       best_serial(SerialWords(text), BestScore(text))

invalid_serial_words ==
  << <<"n","a","n">>, <<"n","o","n","e">>, <<>>, <<"n","u","l","l">>, <<"n","a","t">>, <<"n","/","a">>,
     <<"n","a">>, <<"t","b","d">>, <<"t","b","c">> >>
header_patterns ==
  << <<"c","p","u","s","n">>, <<"c","p","u","0","s","n">>, <<"c","p","u","1","s","n">>,
     <<"s","e","r","i","a","l","n","u","m","b","e","r">>, <<"s","e","r","i","a","l">>,
     <<"b","a","r","c","o","d","e">>, <<"p","p","i","d">>, <<"s","y","s","t","e","m","s","n">>,
     <<"r","m","a">>, <<"a","s","s","e","t","i","d">> >>

\* str(row[serial_column]).strip(), first line only (parser.py 861-866)
RawSerial(cell) ==
  LET first_line(s) == IF Contains(<<"\n">>, s) THEN Strip(FirstLine(s)) ELSE s IN
  first_line(Strip(IF cell = None THEN <<"n","a","n">> ELSE cell))

\* serial_number of a row: the extracted word, else the raw value when it
\* is a valid serial, else None (parser.py 870-875)
SerialOfCell(cell) ==
  LET serial_number(raw_serial, extracted_serial) ==
        IF Truthy(extracted_serial) THEN extracted_serial
        ELSE IF Truthy(raw_serial) /\ is_valid_amd_cpu_serial(raw_serial) THEN raw_serial
        ELSE None IN
  serial_number(RawSerial(cell), extract_best_serial_from_text(RawSerial(cell)))

\* The value looks like a column header that re-appears as data (906-912)
LooksLikeHeader(serial_number) ==
  /\ ContainsAny(header_patterns, RemoveChars(Lower(serial_number), {" ", "_"}))
  /\ Len(serial_number) < 20

\* The row passes every check of lines 890-912 and is merged.
RowAccepted(cell) ==
  LET Passes(serial_number) ==
        /\ Truthy(serial_number)
        /\ ~InList(Lower(serial_number), invalid_serial_words)
        /\ ~is_legend_or_reference_row(serial_number)
        /\ is_valid_amd_cpu_serial(serial_number)
        /\ ~LooksLikeHeader(serial_number) IN
  Passes(SerialOfCell(cell))

(***************************************************************************)
(* Column names and field values (parser.py, lines 65-130 and 443-464).    *)
(***************************************************************************)
\* normalize_column_name: trimmed, lower-cased, runs of whitespace made one space
normalize_column_name(column_name) ==
  Join(<<" ">>, Split(Lower(Strip(column_name)), SpaceSet))

\* key.startswith('_')
IsMetaKey(key) == StartsWith(<<"_">>, key)

non_customer_patterns ==
  << <<"R","M","A">>, <<"F","A">>, <<"N","F","F">>, <<"T","B","D">>, <<"T","B","C">>, <<"N","/","A">>,
     <<"N","A">>, <<"N","O","N","E">>, <<"N","U","L","L">>, <<"U","N","K","N","O","W","N">>,
     <<"E","R","R">>, <<"E","R","R","O","R">>, <<"F","A","I","L">>, <<"P","A","R","I","T","Y">>,
     <<"H","A","N","G">>, <<"C","R","A","S","H">>, <<"W","D","T">>, <<"T","I","M","E","O","U","T">>,
     <<"S","T","R","E","S","S">>, <<"A","C","F">>, <<"C","O","R","R">>, <<"U","N","C","O","R","R">>,
     <<"E","C","C">>, <<"M","C","E">>, <<"W","H","E","A">>, <<"A","T","E">>, <<"S","L","T">>,
     <<"O","S","V">>, <<"C","E","S","L","T">>, <<"L","1">>, <<"L","2">>, <<"F","T","1">>,
     <<"F","T","2">>, <<"T","E","S","T">>, <<"D","E","B","U","G">>, <<"S","A","M","P","L","E">>,
     <<"I","N","T","E","R","N","A","L">>, <<"D","E","M","O">>, <<"H","U","A","Q","I","N">>,
     <<"W","I","S","T","R","O","N">>, <<"F","O","X","C","O","N","N">>, <<"Q","U","A","N","T","A">>,
     <<"C","O","M","P","A","L">>, <<"I","N","V","E","N","T","E","C">>,
     <<"P","E","G","A","T","R","O","N">>, <<"F","L","E","X">>, <<"J","A","B","I","L">>,
     <<"C","E","L","E","S","T","I","C","A">>, <<"S","U","P","E","R"," ","M","I","C","R","O">>,
     <<"S","U","P","E","R","M","I","C","R","O">>, <<"T","U","R","I","N">>, <<"G","E","N","O","A">>,
     <<"B","E","R","G","A","M","O">>, <<"S","I","E","N","A">>, <<"M","I","L","A","N">>,
     <<"R","O","M","E">>, <<"N","A","P","L","E","S">>, <<"E","P","Y","C">>, <<"R","Y","Z","E","N">>,
     <<"T","H","R","E","A","D","R","I","P","P","E","R">>, <<"Z","E","N">> >>
known_customers ==
  << <<"T","E","N","C","E","N","T">>, <<"A","L","I","B","A","B","A">>, <<"U","N","I","T">>,
     <<"H","U","A","W","E","I">>, <<"B","A","I","D","U">>, <<"B","Y","T","E","D","A","N","C","E">>,
     <<"M","I","C","R","O","S","O","F","T">>, <<"G","O","O","G","L","E">>, <<"A","M","A","Z","O","N">>,
     <<"M","E","T","A">>, <<"O","R","A","C","L","E">>, <<"I","B","M">>, <<"D","E","L","L">>,
     <<"H","P">>, <<"H","P","E">>, <<"L","E","N","O","V","O">>,
     <<"S","U","P","E","R","M","I","C","R","O">>, <<"C","I","S","C","O">> >>

is_valid_customer_value(customer) ==
  /\ Truthy(customer)
  /\ LET c == Strip(customer)
         cu == Upper(c)
         words == Split(c, SpaceSet)
         short_words == SelectSeq(words, LAMBDA w : Len(w) <= 3) IN
     /\ Len(c) >= 2
     /\ ~ContainsAny(non_customer_patterns, cu)
     /\ ~(Len(words) >= 2 /\ 2 * Len(short_words) >= Len(words))
     /\ \/ ContainsAny(known_customers, cu)
        \/ (3 <= Len(c) /\ Len(c) <= 50 /\ (c # cu \/ Len(c) > 6))

(***************************************************************************)
(* Cleaning of error_type at the end of a run (column_classifier.py,       *)
(* lines 366-475).                                                         *)
(***************************************************************************)
s_Unknown ==
  <<"U","n","k","n","o","w","n">>
s_SystemDump ==
  <<"S","y","s","t","e","m"," ","D","u","m","p">>
s_AFHCError ==
  <<"A","F","H","C"," ","E","r","r","o","r">>
s_MachineCheck ==
  <<"M","a","c","h","i","n","e"," ","C","h","e","c","k"," ","E","x","c","e","p","t","i","o","n">>
s_DiagnosticLink ==
  <<"D","i","a","g","n","o","s","t","i","c"," ","L","i","n","k">>
s_Ellipsis ==
  <<".",".",".">>
unknown_error_words ==
  << <<"n","/","a">>, <<"n","a">>, <<"n","o","n","e">>, <<"u","n","k","n","o","w","n">>, <<>> >>
dirty_error_marks ==
  << <<".","t","a","r">>, <<".","g","z">>, <<".","l","o","g">>, <<"h","t","t","p">>, <<":","/","/">> >>
cleaned_extensions ==
  << <<".","t","a","r",".","g","z">>, <<".","t","a","r">>, <<".","g","z">>, <<".","l","o","g">>,
     <<".","t","x","t">>, <<".","d","u","m","p">> >>

CollapseSpaces(s) == Join(<<" ">>, Split(s, SpaceSet))

RECURSIVE RemoveEach(_, _)
RemoveEach(s, subs) ==
  IF subs = <<>> THEN s ELSE RemoveEach(RemoveAll(s, Head(subs)), Tail(subs))

\* re.search(r'\(\s*([^)]+)\s*\)', s): the text between the leftmost "(" that
\* is followed by a non-empty parenthesis-free text and the next ")",
\* stripped; None when there is no match.
ParenMatch(s) ==
  LET Closes(i) == {j \in (i + 1)..Len(s) : s[j] = ")"}
      Close(i) == CHOOSE j \in Closes(i) : \A k \in Closes(i) : j <= k
      Opens == {i \in 1..Len(s) : s[i] = "(" /\ Closes(i) # {} /\ Close(i) >= i + 2} IN
  IF Opens = {} THEN None
  ELSE LET i == CHOOSE o \in Opens : \A k \in Opens : o <= k
       IN Strip(SubSeq(s, i + 1, Close(i) - 1))

Truncate100(s) == IF Len(s) > 100 THEN SubSeq(s, 1, 97) \o s_Ellipsis ELSE s

_fallback_error_cleaning(error_value) ==
  LET cleaned == RemoveEach(Strip(error_value), cleaned_extensions)
      low == Lower(cleaned)
      paren == ParenMatch(cleaned)
      rest == Truncate100(CollapseSpaces(cleaned)) IN
  IF Contains(<<"d","u","m","p","_">>, low) THEN s_SystemDump
  ELSE IF Contains(<<"a","f","h","c">>, low) THEN s_AFHCError
  ELSE IF Contains(<<"m","c","e">>, low) THEN s_MachineCheck
  ELSE IF Contains(<<"h","t","t","p">>, low) \/ Contains(<<":","/","/">>, cleaned)
       THEN s_DiagnosticLink
  ELSE IF paren # None /\ Len(paren) < 30 THEN paren
  ELSE IF rest # <<>> THEN rest ELSE s_Unknown

\* Texts the remote service may answer when asked to clean an error value.
OracleCleanedTexts ==
  << <<"O","S"," ","C","r","a","s","h">>, <<>> >>

\* clean_error_type_with_nabu asks the remote service (line 421): the value
\* is neither empty, unknown nor short and clean, and a client exists.
OracleAsked(error_value, api_token) ==
  /\ Truthy(error_value)
  /\ ~InList(Lower(error_value), unknown_error_words)
  /\ ~(Len(error_value) < 50 /\ ~ContainsAny(dirty_error_marks, Lower(error_value)))
  /\ api_token

\* The values clean_error_type_with_nabu can return for error_value: the
\* remote service is asked only for a long or dirty value and only when a
\* token is configured; its answer is any text, and a failed call falls
\* back to the local cleaning.
clean_error_type_with_nabu(error_value, api_token) ==
  IF ~Truthy(error_value) \/ InList(Lower(error_value), unknown_error_words)
  THEN {s_Unknown}
  ELSE IF Len(error_value) < 50 /\ ~ContainsAny(dirty_error_marks, Lower(error_value))
  THEN {CollapseSpaces(Strip(error_value))}
  ELSE IF ~api_token THEN {_fallback_error_cleaning(error_value)}
  ELSE {_fallback_error_cleaning(error_value)}
       \cup {LET c == Truncate100(Strip(OracleCleanedTexts[k])) IN
             IF c # <<>> THEN c ELSE s_Unknown : k \in 1..Len(OracleCleanedTexts)}

(***************************************************************************)
(* Identity column detector (parser.py, lines 210-410).  Scores are        *)
(* rationals <<numerator, denominator>>, compared exactly.                 *)
(***************************************************************************)
HEADER_KEYWORDS ==
  << <<"c","p","u","_","s","n">>, <<"c","p","u"," ","s","n">>, <<"c","p","u","s","n">>,
     <<"2","d","_","b","a","r","c","o","d","e","_","s","n">>,
     <<"2","d","_","b","a","r","c","o","d","e">>, <<"2","d">>, <<"s","n">>, <<"s","e","r","i","a","l">>,
     <<"b","a","r","c","o","d","e">>, <<"p","p","i","d">>,
     <<"s","e","r","i","a","l","_","n","u","m","b","e","r">>,
     <<"s","e","r","i","a","l","n","u","m","b","e","r">>,
     <<"s","e","r","i","a","l"," ","n","u","m","b","e","r">>, <<"p","a","r","t","_","i","d">>,
     <<"a","s","s","e","t","_","i","d">>, <<"d","e","v","i","c","e","_","i","d">>, <<"r","m","a">>,
     <<"s","y","s","t","e","m","_","s","n">>, <<"s","y","s","t","e","m"," ","s","n">>,
     <<"r","m","a","#">>, <<"r","m","a"," ","#">>, <<"r","m","a","_","n","u","m","b","e","r">>,
     <<"u","n","i","t","_","s","n">>, <<"u","n","i","t"," ","s","n">>,
     <<"d","e","v","i","c","e","_","s","n">>, <<"d","e","v","i","c","e"," ","s","e","r","i","a","l">> >>
priority_keywords ==
  << <<"c","p","u","_","s","n">>, <<"c","p","u"," ","s","n">>, <<"c","p","u","s","n">>,
     <<"2","d","_","b","a","r","c","o","d","e","_","s","n">>,
     <<"2","d","_","b","a","r","c","o","d","e">>, <<"2","d"," ","b","a","r","c","o","d","e">> >>

SerialTokenSet == AlnumSet \cup {"_", "-"}

\* CPU_SN_PATTERN: ^[A-Z0-9]+_\d+-\d+$, case-insensitive
CPU_SN_PATTERN(s) ==
  \E u \in 2..(Len(s) - 3) : \E d \in (u + 2)..(Len(s) - 1) :
     /\ s[u] = "_" /\ s[d] = "-"
     /\ \A i \in 1..(u - 1) : s[i] \in AlnumSet
     /\ \A i \in (u + 1)..(d - 1) : s[i] \in DigitSet
     /\ \A i \in (d + 1)..Len(s) : s[i] \in DigitSet
\* SERIAL_PATTERN: ^[A-Z0-9]{8,25}$, case-insensitive
SERIAL_PATTERN(s) ==
  Len(s) >= 8 /\ Len(s) <= 25 /\ \A i \in 1..Len(s) : s[i] \in AlnumSet
\* EXTENDED_PATTERN: ^[A-Z0-9_\-]{8,30}$, case-insensitive
EXTENDED_PATTERN(s) ==
  Len(s) >= 8 /\ Len(s) <= 30 /\ \A i \in 1..Len(s) : s[i] \in SerialTokenSet

RECURSIVE Gcd(_, _)
Gcd(a, b) == IF b = 0 THEN a ELSE Gcd(b, a % b)
\* A rational in lowest terms (keeps the integers small).
Rat(n, d) == LET g == Gcd(n, d) IN <<n \div g, d \div g>>
RatLeq(a, b) == a[1] * b[2] <= b[1] * a[2]
RatAdd(a, b) == Rat(a[1] * b[2] + b[1] * a[2], a[2] * b[2])
RatMul(a, b) == Rat(a[1] * b[1], a[2] * b[2])
RECURSIVE RatMax(_)
RatMax(rs) ==
  IF rs = <<>> THEN <<0, 1>>
  ELSE LET m == RatMax(Tail(rs)) IN IF RatLeq(m, Head(rs)) THEN Head(rs) ELSE m

score_column_header(column_name) ==
  LET col_lower == Strip(Lower(column_name))
      exact == {k \in 1..Len(HEADER_KEYWORDS) : HEADER_KEYWORDS[k] = col_lower}
      Partial(k) ==
        IF Contains(HEADER_KEYWORDS[k], col_lower)
        THEN Rat(Len(HEADER_KEYWORDS[k]) * (IF k <= 3 THEN 12 ELSE IF k <= 6 THEN 11 ELSE 10) * 8,
                 Len(col_lower) * 100)
        ELSE <<0, 1>> IN
  IF exact # {}
  THEN LET k == CHOOSE e \in exact : \A f \in exact : e <= f IN
       IF k <= 3 THEN <<15, 10>> ELSE IF k <= 6 THEN <<13, 10>> ELSE <<10, 10>>
  ELSE RatMax([k \in 1..Len(HEADER_KEYWORDS) |-> Partial(k)])

SampleSize == 100

\* The values of one column of a table, empty cells dropped, first 100.
ColumnSample(rows, c) ==
  LET vals == SelectSeq([r \in 1..Len(rows) |-> rows[r][c]], LAMBDA v : v # None) IN
  SubSeq(vals, 1, IF Len(vals) < SampleSize THEN Len(vals) ELSE SampleSize)

score_column_data(rows, c) ==
  LET sample == ColumnSample(rows, c)
      Val(i) == LET s == Strip(sample[i]) IN
                IF Contains(<<"\n">>, s) THEN Strip(FirstLine(s)) ELSE s
      cpu == {i \in 1..Len(sample) : CPU_SN_PATTERN(Val(i))}
      std == {i \in 1..Len(sample) : i \notin cpu /\ SERIAL_PATTERN(Val(i))}
      ext == {i \in 1..Len(sample) : i \notin cpu /\ i \notin std /\ EXTENDED_PATTERN(Val(i))} IN
  IF Len(sample) = 0 THEN <<0, 1>>
  ELSE Rat(15 * Cardinality(cpu) + 10 * Cardinality(std) + 8 * Cardinality(ext), 10 * Len(sample))

MinColumnScore ==
  <<3, 10>>

combined_score(columns, rows, c) ==
  RatAdd(RatMul(score_column_header(columns[c]), <<2, 5>>),
         RatMul(score_column_data(rows, c), <<3, 5>>))

\* The detector without its pass over the reserved names.
detect_serial_column_NoPriority(columns, rows) ==
  LET Best(best) ==
        IF rows = <<>> \/ columns = <<>> THEN 0
        ELSE IF RatLeq(MinColumnScore, combined_score(columns, rows, best)) THEN best
        ELSE 0 IN
  Best(CHOOSE c \in 1..Len(columns) :
         /\ \A o \in 1..Len(columns) :
              RatLeq(combined_score(columns, rows, o), combined_score(columns, rows, c))
         /\ \A o \in 1..(c - 1) :
              ~RatLeq(combined_score(columns, rows, c), combined_score(columns, rows, o)))

\* detect_serial_column: the index of the identity column of a table, 0 for None
detect_serial_column(columns, rows) ==
  LET Detected(prio, best) ==
        IF rows = <<>> \/ columns = <<>> THEN 0
        ELSE IF prio # {} THEN CHOOSE c \in prio : \A o \in prio : c <= o
        ELSE IF RatLeq(MinColumnScore, combined_score(columns, rows, best)) THEN best
        ELSE 0 IN
  Detected({c \in 1..Len(columns) :
              /\ InList(Strip(Lower(columns[c])), priority_keywords)
              /\ RatLeq(MinColumnScore, score_column_data(rows, c))},
           CHOOSE c \in 1..Len(columns) :
              /\ \A o \in 1..Len(columns) :
                   RatLeq(combined_score(columns, rows, o), combined_score(columns, rows, c))
              /\ \A o \in 1..(c - 1) :
                   ~RatLeq(combined_score(columns, rows, c), combined_score(columns, rows, o)))

(***************************************************************************)
(* Column role classifier: the local fallback (column_classifier.py,       *)
(* lines 299-363).  A character outside ASCII is written "U+XXXX".         *)
(***************************************************************************)
CATEGORIES ==
  {"SERIAL_NUMBER", "ERROR_TYPE", "STATUS", "TEST_TIER", "DATE", "CUSTOMER",
   "PLATFORM", "DIAGNOSTIC", "DESCRIPTION", "IGNORE"}

\* The spelling of each category, as a response of the remote classifier
\* writes it.
CategoryText ==
  [ SERIAL_NUMBER |-> <<"S","E","R","I","A","L","_","N","U","M","B","E","R">>,
    ERROR_TYPE |-> <<"E","R","R","O","R","_","T","Y","P","E">>,
    STATUS |-> <<"S","T","A","T","U","S">>,
    TEST_TIER |-> <<"T","E","S","T","_","T","I","E","R">>,
    DATE |-> <<"D","A","T","E">>,
    CUSTOMER |-> <<"C","U","S","T","O","M","E","R">>,
    PLATFORM |-> <<"P","L","A","T","F","O","R","M">>,
    DIAGNOSTIC |-> <<"D","I","A","G","N","O","S","T","I","C">>,
    DESCRIPTION |-> <<"D","E","S","C","R","I","P","T","I","O","N">>,
    IGNORE |-> <<"I","G","N","O","R","E">> ]

kw_serial ==
  << <<"c","p","u","_","s","n">>, <<"c","p","u"," ","s","n">>, <<"c","p","u","s","n">>,
     <<"2","d","_","b","a","r","c","o","d","e">>, <<"s","e","r","i","a","l">>, <<"s","n">>,
     <<"b","a","r","c","o","d","e">>, <<"p","p","i","d">>, <<"s","y","s","t","e","m","_","s","n">>,
     <<"r","m","a","#">>, <<"a","s","s","e","t">> >>
kw_date ==
  << <<"d","a","t","e">>, <<"t","i","m","e">>, <<"U+65E5","U+671F">>,
     <<"t","i","m","e","s","t","a","m","p">>, <<"d","a","t","e","c","o","d","e">> >>
kw_tier ==
  << <<"s","t","a","g","e">>, <<"l","1">>, <<"l","2">>, <<"l","3">>, <<"a","t","e">>, <<"s","l","t">>,
     <<"c","e","s","l","t">>, <<"o","s","v">>, <<"a","f","h","c">>, <<"f","t","1">>, <<"f","t","2">>,
     <<"f","s","1">>, <<"f","s","2">>, <<"t","i","e","r">>, <<"p","h","a","s","e">> >>
kw_error ==
  << <<"e","r","r","o","r">>, <<"f","a","i","l">>, <<"s","y","m","p","t","o","m">>,
     <<"i","s","s","u","e">>, <<"p","r","o","b","l","e","m">>, <<"U+9519","U+8BEF">>,
     <<"U+6545","U+969C">>, <<"f","a","u","l","t">>, <<"f","a","i","l","t","y","p","e">>,
     <<"f","a","i","l","u","r","e">> >>
kw_location ==
  << <<"c","o","r","e">>, <<"c","c","d">>, <<"s","o","c","k","e","t">>, <<"d","i","e">>,
     <<"d","i","m","m">>, <<"c","h","a","n","n","e","l">>, <<"r","a","n","k">> >>
kw_error_file ==
  << <<"d","u","m","p">>, <<"l","o","g">>, <<"f","i","l","e">>, <<"p","a","t","h">>,
     <<".","t","a","r">>, <<".","g","z">>, <<"a","f","h","c">> >>
kw_status ==
  << <<"s","t","a","t","u","s">>, <<"s","t","a","t","e">>, <<"U+72B6","U+6001">>,
     <<"f","a","_","s","t","a","t","u","s">>, <<"f","a"," ","s","t","a","t","u","s">>,
     <<"r","m","a"," ","s","t","a","t","u","s">>, <<"r","e","s","o","l","u","t","i","o","n">> >>
kw_customer ==
  << <<"c","u","s","t","o","m","e","r">>, <<"c","l","i","e","n","t">>, <<"U+5BA2","U+6237">>,
     <<"c","u","s","t">>, <<"e","n","d","_","c","u","s","t","o","m","e","r">> >>
kw_platform ==
  << <<"p","l","a","t","f","o","r","m">>, <<"b","i","o","s">>, <<"f","i","r","m","w","a","r","e">>,
     <<"v","e","r","s","i","o","n">>, <<"h","a","r","d","w","a","r","e">>, <<"c","o","n","f","i","g">>,
     <<"c","p","u">>, <<"d","i","m","m">> >>
kw_diagnostic ==
  << <<"d","u","m","p">>, <<"l","o","g">>, <<"f","i","l","e">>, <<"p","a","t","h">>, <<"u","r","l">>,
     <<"l","i","n","k">>, <<"s","h","a","r","e","p","o","i","n","t">>, <<"h","t","t","p">>,
     <<".","t","a","r">>, <<".","g","z">>, <<"a","f","h","c">>,
     <<"d","i","a","g","n","o","s","t","i","c">> >>
kw_description ==
  << <<"c","o","m","m","e","n","t">>, <<"n","o","t","e">>,
     <<"d","e","s","c","r","i","p","t","i","o","n">>, <<"s","u","m","m","a","r","y">>,
     <<"o","b","s","e","r","v","a","t","i","o","n">>, <<"d","e","b","u","g">>,
     <<"r","e","m","a","r","k">> >>

\* A chain that tests the status markers before the error markers.
_classify_single_column_StatusFirst(column) ==
  LET col_lower == Strip(Lower(column)) IN
  IF ContainsAny(kw_serial, col_lower) THEN "SERIAL_NUMBER"
  ELSE IF ContainsAny(kw_date, col_lower) THEN "DATE"
  ELSE IF ContainsAny(kw_tier, col_lower) THEN "TEST_TIER"
  ELSE IF ContainsAny(kw_status, col_lower) THEN "STATUS"
  ELSE IF ContainsAny(kw_error, col_lower)
       THEN IF ContainsAny(kw_location, col_lower) THEN "DESCRIPTION"
            ELSE IF ContainsAny(kw_error_file, col_lower) THEN "DIAGNOSTIC"
            ELSE "ERROR_TYPE"
  ELSE IF ContainsAny(kw_customer, col_lower) THEN "CUSTOMER"
  ELSE IF ContainsAny(kw_platform, col_lower) THEN "PLATFORM"
  ELSE IF ContainsAny(kw_diagnostic, col_lower) THEN "DIAGNOSTIC"
  ELSE IF ContainsAny(kw_description, col_lower) THEN "DESCRIPTION"
  ELSE "IGNORE"
_classify_single_column(column) ==
  LET col_lower == Strip(Lower(column)) IN
  IF ContainsAny(kw_serial, col_lower) THEN "SERIAL_NUMBER"
  ELSE IF ContainsAny(kw_date, col_lower) THEN "DATE"
  ELSE IF ContainsAny(kw_tier, col_lower) THEN "TEST_TIER"
  ELSE IF ContainsAny(kw_error, col_lower)
       THEN IF ContainsAny(kw_location, col_lower) THEN "DESCRIPTION"
            ELSE IF ContainsAny(kw_error_file, col_lower) THEN "DIAGNOSTIC"
            ELSE "ERROR_TYPE"
  ELSE IF ContainsAny(kw_status, col_lower) THEN "STATUS"
  ELSE IF ContainsAny(kw_customer, col_lower) THEN "CUSTOMER"
  ELSE IF ContainsAny(kw_platform, col_lower) THEN "PLATFORM"
  ELSE IF ContainsAny(kw_diagnostic, col_lower) THEN "DIAGNOSTIC"
  ELSE IF ContainsAny(kw_description, col_lower) THEN "DESCRIPTION"
  ELSE "IGNORE"

(***************************************************************************)
(* Ordered dictionaries: a Python dict is a sequence of entries            *)
(* [k |-> key, v |-> value] in insertion order.                            *)
(***************************************************************************)
HasKey(d, key) == \E i \in 1..Len(d) : d[i].k = key
Get(d, key) == d[CHOOSE i \in 1..Len(d) : d[i].k = key].v
\* d[key] = value
Put(d, key, value) ==
  IF HasKey(d, key)
  THEN [i \in 1..Len(d) |-> IF d[i].k = key THEN [k |-> key, v |-> value] ELSE d[i]]
  ELSE Append(d, [k |-> key, v |-> value])
\* del d[key]
Del(d, key) == SelectSeq(d, LAMBDA e : e.k # key)
\* The keys of a field map that are not the program's own "_..." entries.
DataKeys(d) == {d[i].k : i \in {j \in 1..Len(d) : ~IsMetaKey(d[j].k)}}

\* str(n) for a natural number
RECURSIVE IntStr(_)
IntStr(n) ==
  LET digit == <<"0","1","2","3","4","5","6","7","8","9">>[(n % 10) + 1] IN
  IF n < 10 THEN <<digit>> ELSE Append(IntStr(n \div 10), digit)

\* Keys the program adds to a field map.
k_source_filename == <<"_", "source_filename">>
k_source_sheet == <<"_", "source_sheet">>
k_source_row == <<"_", "source_row">>
k_serial_column == <<"_", "serial_column">>
k_customer_from_filename == <<"_", "customer_from_filename">>
k_source_sheets_all == <<"_", "source_sheets_all">>
k_sheets_combined == <<"_", "sheets_combined">>
k_total_sheets == <<"_", "total_sheets">>
k_components == <<"_", "components">>
k_original_error_type == <<"_", "original_error_type">>
k_column_classification == <<"_", "column_classification">>
k_error_sources == <<"_", "error_sources">>
k_diagnostic_info == <<"_", "diagnostic_info">>
k_files_combined == <<"_", "files_combined">>
k_Customer ==
  <<"C","u","s","t","o","m","e","r">>
s_SEP ==
  <<" ","|"," ">>

(***************************************************************************)
(* Customer derived from the file name (parser.py, lines 467-508).         *)
(***************************************************************************)
filename_customers ==
  << <<"T","e","n","c","e","n","t">>, <<"A","l","i","b","a","b","a">>, <<"M","e","t","a">>, <<"G","o","o","g","l","e">>, <<"M","i","c","r","o","s","o","f","t">>, <<"A","m","a","z","o","n">>,
     <<"F","a","c","e","b","o","o","k">>, <<"B","y","t","e","D","a","n","c","e">>, <<"B","a","i","d","u">>, <<"H","u","a","w","e","i">>, <<"I","n","t","e","l">>, <<"A","M","D">> >>
generic_first_words ==
  << <<"s","u","m","m","a","r","y">>, <<"t","r","a","c","k","e","r">>, <<"r","e","p","o","r","t">>, <<"s","t","a","t","u","s">>, <<"d","a","t","a">>, <<"f","a">>, <<"d","p","p","m">> >>
LetterSet == UpperSet \cup LowerSet

\* re.match(r'^([A-Za-z]+)[\s_\-]', filename): the leading letters when they
\* are followed by whitespace, "_" or "-"; None otherwise
FirstWord(filename) ==
  LET n == CHOOSE m \in 0..Len(filename) :
             /\ \A i \in 1..m : filename[i] \in LetterSet
             /\ (m = Len(filename) \/ filename[m + 1] \notin LetterSet) IN
  IF n >= 1 /\ n < Len(filename) /\ filename[n + 1] \in SpaceSet \cup {"_", "-"}
  THEN SubSeq(filename, 1, n) ELSE None

extract_customer_from_filename(filename) ==
  LET found == SelectSeq(filename_customers, LAMBDA c : Contains(Upper(c), Upper(filename)))
      first_word == FirstWord(filename) IN
  IF ~Truthy(filename) THEN None
  ELSE IF found # <<>> THEN Join(<<" ">>, found)
  ELSE IF first_word # None /\ ~InList(Lower(first_word), generic_first_words) THEN first_word
  ELSE None
(***************************************************************************)
(* Record building and merging for one row (parser.py, lines 859-1076).    *)
(* A table is its column names and its rows; a row is the sequence of its  *)
(* cells, a cell a text or None (an empty cell).  The sheet context ctx    *)
(* holds the locals of parse_excel that the row loop reads.                *)
(***************************************************************************)
\* clean_value of a cell: an empty cell is None, a text is kept
clean_value(value) == value

RECURSIVE LStripSet(_, _)
LStripSet(s, cs) ==
  IF s = <<>> THEN s ELSE IF Head(s) \in cs THEN LStripSet(Tail(s), cs) ELSE s
RECURSIVE RStripSet(_, _)
RStripSet(s, cs) ==
  IF s = <<>> THEN s
  ELSE IF s[Len(s)] \in cs THEN RStripSet(SubSeq(s, 1, Len(s) - 1), cs) ELSE s
PunctSet == SpaceSet \cup {",", "-", "_", ":", ";"}

\* column_classification.get(col, "IGNORE")
RoleOf(classification, col) ==
  IF col \in DOMAIN classification THEN classification[col] ELSE "IGNORE"

\* The error description left in the identity cell once the identity is
\* taken out, when the oracle named that column for error extraction.
ExtractedError(ctx, row) ==
  LET Rest(raw_serial, serial_number) ==
        RStripSet(LStripSet(Strip(RemoveAll(raw_serial, serial_number)), PunctSet), PunctSet)
      Extracted(serial_number, error_text) ==
        IF /\ Truthy(ctx.ai_error_extraction_column)
           /\ ctx.columns[ctx.serial_column] = ctx.ai_error_extraction_column
           /\ Truthy(serial_number)
           /\ error_text # <<>> /\ Len(error_text) > 3
        THEN error_text ELSE None IN
  Extracted(SerialOfCell(row[ctx.serial_column]),
            Rest(RawSerial(row[ctx.serial_column]), SerialOfCell(row[ctx.serial_column])))

\* f"{sheet_name} (row {int(idx) + 2})"
SheetRef(sheet_name, idx) ==
  sheet_name \o <<" ","(","r","o","w"," ">> \o IntStr(idx + 2) \o <<")">>

\* Index of the record of serial_number in combined_data, 0 when absent.
IndexOf_Absent(combined, serial_number) ==
  0
IndexOf(combined, serial_number) ==
  IF \E i \in 1..Len(combined) : combined[i].serial_number = serial_number
  THEN CHOOSE i \in 1..Len(combined) : combined[i].serial_number = serial_number
  ELSE 0
Serials(combined) == {combined[i].serial_number : i \in 1..Len(combined)}

\* Lines 914-956: the record of a first sighting, or the record of a
\* repeated sighting with the new location added.
Sighted(combined, ctx, idx, serial_number) ==
  LET i == IndexOf(combined, serial_number) IN
  IF i = 0
  THEN [serial_number |-> serial_number,
        error_type |-> None,
        status |-> None,
        source_filename |-> ctx.source_filename,
        raw_data |-> << [k |-> k_source_filename, v |-> ctx.source_filename],
                        [k |-> k_source_sheet, v |-> ctx.sheet_name],
                        [k |-> k_source_row, v |-> idx + 2],
                        [k |-> k_serial_column, v |-> ctx.columns[ctx.serial_column]] >>
                     \o (IF Truthy(ctx.customer_from_filename)
                         THEN << [k |-> k_customer_from_filename, v |-> ctx.customer_from_filename] >>
                         ELSE << >>),
        sheets_found |-> << SheetRef(ctx.sheet_name, idx) >>,
        error_sources |-> << >>,
        diagnostic_info |-> << >>]
  ELSE LET rec == combined[i]
           all == IF HasKey(rec.raw_data, k_source_sheets_all)
                  THEN Get(rec.raw_data, k_source_sheets_all)
                  ELSE << [sheet |-> Get(rec.raw_data, k_source_sheet),
                           row |-> Get(rec.raw_data, k_source_row)] >> IN
       [rec EXCEPT !.sheets_found = Append(@, SheetRef(ctx.sheet_name, idx)),
                   !.raw_data = Put(@, k_source_sheets_all,
                                    Append(all, [sheet |-> ctx.sheet_name, row |-> idx + 2]))]

no_error_words ==
  << <<"n","/","a">>, <<"n","a">>, <<"n","o","n","e">>, <<>> >>
error_path_marks ==
  << <<".","t","a","r">>, <<".","g","z">>, <<".","l","o","g">>, <<"h","t","t","p",":","/","/">>, <<"h","t","t","p","s",":","/","/">> >>
MaxErrorLen == 100

\* A value of an error column that may become error_type (lines 969-975)
UsableError(value) ==
  /\ Truthy(value)
  /\ ~InList(Lower(value), no_error_words)
  /\ ~ContainsAny(error_path_marks, Lower(value))
  /\ Len(value) < MaxErrorLen

\* error_values and the entries added to _error_sources (lines 958-976)
ErrorColumnsUsed(ctx, row) ==
  SelectSeq(ctx.error_columns, LAMBDA c : UsableError(clean_value(row[c])))
ErrorValues(ctx, row) ==
  LET Values(extracted, used) ==
        (IF Truthy(extracted) THEN << extracted >> ELSE << >>)
        \o [j \in 1..Len(used) |-> row[used[j]]] IN
  Values(ExtractedError(ctx, row), ErrorColumnsUsed(ctx, row))
ErrorSources(ctx, row) ==
  LET Sources(extracted, used) ==
        (IF Truthy(extracted)
         THEN << ctx.columns[ctx.serial_column] \o <<" ","(","e","x","t","r","a","c","t","e","d",")">> >> ELSE << >>)
        \o [j \in 1..Len(used) |-> ctx.columns[used[j]]] IN
  Sources(ExtractedError(ctx, row), ErrorColumnsUsed(ctx, row))

tier_not_failed ==
  << <<"P","A","S","S">>, <<"P","A","S","S","E","D">>, <<"N","F","F">>, <<"N","F","T">>, <<"N","O","T"," ","R","U","N">>, <<"N","/","A">>, <<"N","A">>, <<>> >>
tier_passed ==
  << <<"P","A","S","S">>, <<"P","A","S","S","E","D">>, <<"N","F","F">>, <<"N","F","T">> >>
tier_not_run ==
  << <<"N","O","T"," ","R","U","N">>, <<"N","/","A">>, <<"N","A">>, <<>> >>

\* A tier value that makes error_type "Failed at: ..." (lines 995-1002)
TierFailed(value) ==
  /\ Truthy(value)
  /\ LET value_upper == Strip(Upper(value)) IN
     /\ ~InList(value_upper, tier_not_failed)
     /\ ~StartsWith(<<"N","F","F">>, value_upper)
     /\ ~StartsWith(<<"N","F","T">>, value_upper)

\* failed_tiers (lines 992-1002)
FailedTiers(ctx, row) ==
  SelectSeq(ctx.tier_columns, LAMBDA c : TierFailed(clean_value(row[c])))

\* Lines 958-1007: error_type and _error_sources after the row
WithError(rec, ctx, row) ==
  LET FromColumns(error_values, sources) ==
        [rec EXCEPT !.error_sources = @ \o sources,
                    !.error_type = IF error_values # << >> /\ ~Truthy(@)
                                   THEN error_values[1] ELSE @]
      FromTiers(r1, error_values, failed_tiers) ==
        IF error_values = << >> /\ ctx.tier_columns # << >> /\ ~Truthy(r1.error_type)
           /\ failed_tiers # << >>
        THEN [r1 EXCEPT !.error_type = <<"F","a","i","l","e","d"," ","a","t",":"," ">> \o ctx.columns[failed_tiers[1]],
                        !.error_sources = Append(@, <<"t","i","e","r",":">> \o ctx.columns[failed_tiers[1]])]
        ELSE r1 IN
  FromTiers(FromColumns(ErrorValues(ctx, row), ErrorSources(ctx, row)),
            ErrorValues(ctx, row), FailedTiers(ctx, row))

\* Lines 982-987: diagnostic values are kept apart
RECURSIVE WithDiagnostics(_, _, _, _)
WithDiagnostics(info, ctx, row, j) ==
  IF j > Len(ctx.diagnostic_columns) THEN info
  ELSE LET c == ctx.diagnostic_columns[j] IN
       WithDiagnostics(IF Truthy(clean_value(row[c])) THEN Put(info, ctx.columns[c], row[c]) ELSE info,
                       ctx, row, j + 1)

\* Lines 1015-1038: status inferred from the tier values of the row
TierStatus(ctx, row) ==
  LET vals == SelectSeq([j \in 1..Len(ctx.tier_columns) |-> clean_value(row[ctx.tier_columns[j]])],
                        LAMBDA v : Truthy(v))
      IsPass(v) == InList(Strip(Upper(v)), tier_passed)
      IsFailure(v) == ~IsPass(v) /\ ~InList(Strip(Upper(v)), tier_not_run) IN
  IF vals = << >> THEN None
  ELSE IF \E j \in 1..Len(vals) : IsFailure(vals[j]) THEN <<"F","a","i","l","e","d">>
  ELSE IF \E j \in 1..Len(vals) : IsPass(vals[j]) THEN <<"P","a","s","s","e","d">>
  ELSE <<"N","o","t"," ","R","u","n">>

\* A status that follows the latest sighting.
WithStatus_Latest(rec, ctx, row) ==
  LET has_status_column == ctx.status_column # 0 /\ Truthy(ctx.columns[ctx.status_column])
      status_value == IF has_status_column THEN clean_value(row[ctx.status_column]) ELSE None IN
  IF has_status_column /\ Truthy(status_value)
  THEN [rec EXCEPT !.status = status_value] ELSE rec
\* Lines 1009-1038: status after the row
WithStatus(rec, ctx, row) ==
  LET has_status_column == ctx.status_column # 0 /\ Truthy(ctx.columns[ctx.status_column])
      status_value == IF has_status_column THEN clean_value(row[ctx.status_column]) ELSE None
      r1 == IF has_status_column /\ Truthy(status_value) /\ ~Truthy(rec.status)
            THEN [rec EXCEPT !.status = status_value] ELSE rec IN
  IF ~has_status_column /\ ctx.tier_columns # << >> /\ ~Truthy(r1.status)
     /\ TierStatus(ctx, row) # None
  THEN [r1 EXCEPT !.status = TierStatus(ctx, row)]
  ELSE r1

\* The first data key of raw_data equal to col under normalisation, None if
\* there is none (lines 1052-1057)
ExistingKey(raw_data, col) ==
  LET hits == {i \in 1..Len(raw_data) :
                 /\ ~IsMetaKey(raw_data[i].k)
                 /\ normalize_column_name(raw_data[i].k) = normalize_column_name(col)} IN
  IF hits = {} THEN None
  ELSE raw_data[CHOOSE i \in hits : \A j \in hits : i <= j].k

\* A merge that keeps only the columns of the first row of an identity.
MergeCell_FirstRowOnly(raw_data, ctx, col, value) ==
  LET existing_key == ExistingKey(raw_data, col) IN
  IF value = None THEN raw_data
  ELSE IF Truthy(existing_key)
       THEN IF Get(raw_data, existing_key) # value
            THEN Put(raw_data, existing_key, Get(raw_data, existing_key) \o s_SEP \o value)
            ELSE raw_data
       ELSE IF HasKey(raw_data, k_source_sheets_all)
            THEN raw_data
            ELSE Put(raw_data, col, value)
\* Lines 1043-1076 for one column: the merge of one cell into raw_data
MergeCell(raw_data, ctx, col, value) ==
  LET existing_key == ExistingKey(raw_data, col) IN
  IF value = None THEN raw_data
  ELSE IF Truthy(existing_key)
       THEN IF Get(raw_data, existing_key) # value
            THEN Put(raw_data, existing_key, Get(raw_data, existing_key) \o s_SEP \o value)
            ELSE raw_data
       ELSE IF RoleOf(ctx.classification, col) = "CUSTOMER" /\ ~is_valid_customer_value(value)
            THEN raw_data
            ELSE Put(raw_data, col, value)

\* Lines 1042-1076: every column of the row, in column order
RECURSIVE MergeRow(_, _, _, _)
MergeRow(raw_data, ctx, row, c) ==
  IF c > Len(ctx.columns) THEN raw_data
  ELSE MergeRow(MergeCell(raw_data, ctx, ctx.columns[c], clean_value(row[c])), ctx, row, c + 1)

\* The record of the row's identity after the row (lines 914-1076)
RowRecord(combined, ctx, idx, row) ==
  LET Diagnosed(rec) == [rec EXCEPT !.diagnostic_info = WithDiagnostics(@, ctx, row, 1)]
      Merged(rec) == [rec EXCEPT !.raw_data = MergeRow(@, ctx, row, 1)] IN
  Merged(WithStatus(Diagnosed(WithError(Sighted(combined, ctx, idx,
                                                 SerialOfCell(row[ctx.serial_column])),
                                         ctx, row)),
                    ctx, row))

\* A row loop without the checks of the identity value.
ProcessRowOf_Unchecked(combined, ctx, idx, row) ==
  LET Stored(i, rec) == IF i = 0 THEN Append(combined, rec) ELSE [combined EXCEPT ![i] = rec] IN
  Stored(IndexOf(combined, SerialOfCell(row[ctx.serial_column])),
         RowRecord(combined, ctx, idx, row))
\* One iteration of the row loop (lines 859-1076): combined_data after it
ProcessRowOf(combined, ctx, idx, row) ==
  LET Stored(i, rec) == IF i = 0 THEN Append(combined, rec) ELSE [combined EXCEPT ![i] = rec] IN
  IF ~RowAccepted(row[ctx.serial_column]) THEN combined
  ELSE Stored(IndexOf(combined, SerialOfCell(row[ctx.serial_column])),
              RowRecord(combined, ctx, idx, row))
(***************************************************************************)
(* Per-sheet preparation (parser.py, lines 696-856).  The table is the     *)
(* DataFrame pandas reads for the sheet.                                   *)
(***************************************************************************)
SKIP_SHEET_PATTERNS ==
  << <<"d","a","t","e","c","o","d","e">>, <<"l","o","o","k","u","p">>, <<"r","e","f","e","r","e","n","c","e">>, <<"m","a","s","t","e","r">>, <<"d","a","t","a","b","a","s","e">>, <<"t","e","m","p","l","a","t","e">> >>
MAX_SHEET_ROWS == 2000
customer_keywords ==
  << <<"c","u","s","t","o","m","e","r">>, <<"c","l","i","e","n","t">>, <<"e","n","d","_","c","u","s","t","o","m","e","r">>, <<"e","n","d"," ","c","u","s","t","o","m","e","r">>, <<"c","u","s","t","o","m","e","r","_","n","a","m","e">>,
     <<"c","u","s","t","o","m","e","r"," ","n","a","m","e">>, <<"U+5BA2","U+6237">>, <<"c","u","s","t">> >>
fallback_error_words ==
  << <<"e","r","r","o","r">>, <<"f","a","i","l","u","r","e">>, <<"i","s","s","u","e">>, <<"s","y","m","p","t","o","m">> >>
fallback_error_excluded ==
  << <<"d","u","m","p">>, <<"l","o","g">>, <<"f","i","l","e">>, <<".","t","a","r">>, <<".","g","z">> >>

\* Lines 700-710: a sheet with a lookup-like name is skipped in a file of
\* several sheets
SkippedByName(sheet_name, sheet_count) ==
  sheet_count > 1 /\ ContainsAny(SKIP_SHEET_PATTERNS, Strip(Lower(sheet_name)))

\* What the second pass does with a sheet of row_count rows (lines 700-710
\* and 787-793).
SheetVerdict(sheet_name, sheet_count, row_count) ==
  IF SkippedByName(sheet_name, sheet_count) THEN "skip pattern"
  ELSE IF row_count = 0 THEN "empty"
  ELSE IF row_count > MAX_SHEET_ROWS THEN "too many rows"
  ELSE "data"

\* df[col].ffill(): an empty cell takes the last value above it
RECURSIVE FFillFrom(_, _, _, _)
FFillFrom(rows, c, r, last) ==
  IF r > Len(rows) THEN rows
  ELSE LET v == IF rows[r][c] # None THEN rows[r][c] ELSE last IN
       FFillFrom([rows EXCEPT ![r][c] = v], c, r + 1, v)

\* Lines 795-804: customer columns are forward-filled
RECURSIVE FillCustomerColumns(_, _, _)
FillCustomerColumns(columns, rows, c) ==
  IF c > Len(columns) THEN rows
  ELSE FillCustomerColumns(columns,
         IF ContainsAny(customer_keywords, Strip(Lower(columns[c])))
         THEN FFillFrom(rows, c, 1, None) ELSE rows,
         c + 1)

\* Index of the first column called name, 0 when there is none.
ColumnIndex(columns, name) ==
  IF \E c \in 1..Len(columns) : columns[c] = name
  THEN CHOOSE c \in 1..Len(columns) :
         columns[c] = name /\ \A o \in 1..(c - 1) : columns[o] # name
  ELSE 0

\* Lines 806-818: the oracle's identity column when the table has it, else
\* the detector's; 0 when the table has no identity column
SerialColumnOf(columns, rows, ai_serial_column) ==
  IF Truthy(ai_serial_column) /\ ColumnIndex(columns, ai_serial_column) # 0
  THEN ColumnIndex(columns, ai_serial_column)
  ELSE detect_serial_column(columns, rows)

ColumnsWithRole(columns, classification, role) ==
  SelectSeq([c \in 1..Len(columns) |-> c],
            LAMBDA c : RoleOf(classification, columns[c]) = role)

\* Lines 848-856: without an ERROR_TYPE column, the first column whose name
\* looks like an error column
FallbackErrorColumns(columns) ==
  LET hits == SelectSeq([c \in 1..Len(columns) |-> c],
                LAMBDA c : LET col_lower == Strip(Lower(columns[c])) IN
                           /\ ContainsAny(fallback_error_words, col_lower)
                           /\ ~ContainsAny(fallback_error_excluded, col_lower)) IN
  IF hits = << >> THEN << >> ELSE << hits[1] >>

\* The locals of parse_excel the row loop of one sheet reads.
SheetContext(source_filename, sheet_name, columns, rows, classification, ai_serial_column, ai_error_extraction_column) ==
  LET errs == ColumnsWithRole(columns, classification, "ERROR_TYPE")
      stats == ColumnsWithRole(columns, classification, "STATUS") IN
  [source_filename |-> source_filename,
   customer_from_filename |-> extract_customer_from_filename(source_filename),
   sheet_name |-> sheet_name,
   columns |-> columns,
   serial_column |-> SerialColumnOf(columns, rows, ai_serial_column),
   error_columns |-> IF errs # << >> THEN errs ELSE FallbackErrorColumns(columns),
   status_column |-> IF stats = << >> THEN 0 ELSE stats[1],
   tier_columns |-> ColumnsWithRole(columns, classification, "TEST_TIER"),
   diagnostic_columns |-> ColumnsWithRole(columns, classification, "DIAGNOSTIC"),
   classification |-> classification,
   ai_error_extraction_column |-> ai_error_extraction_column]

(***************************************************************************)
(* End of the run (parser.py, lines 1083-1240).                            *)
(***************************************************************************)
\* Lines 1091-1097
WithSummary(rec) ==
  [rec EXCEPT !.raw_data =
     Put(Put(@, k_sheets_combined, Join(<<","," ">>, rec.sheets_found)),
         k_total_sheets, Len(rec.sheets_found))]
AddSummaries(combined) == [i \in 1..Len(combined) |-> WithSummary(combined[i])]

\* Lines 1099-1117: the customer of the file name, for a record without a
\* customer field
has_customer_column(raw_data) ==
  \E key \in DataKeys(raw_data) : Contains(<<"c","u","s","t","o","m","e","r">>, Lower(normalize_column_name(key)))
WithFilenameCustomer(rec) ==
  IF HasKey(rec.raw_data, k_customer_from_filename)
  THEN [rec EXCEPT !.raw_data =
          Del(IF has_customer_column(@) THEN @
              ELSE Put(@, k_Customer, Get(@, k_customer_from_filename)),
              k_customer_from_filename)]
  ELSE rec
BackfillCustomer(combined) == [i \in 1..Len(combined) |-> WithFilenameCustomer(combined[i])]

MinTokenLen == 8

\* Lines 1130-1141: the identity-like tokens of the record's component field
ComponentField(raw_data) ==
  LET hits == {i \in 1..Len(raw_data) :
                 ~IsMetaKey(raw_data[i].k) /\ Contains(<<"c","o","m","p","o","n","e","n","t">>, Lower(raw_data[i].k))} IN
  IF hits = {} THEN None ELSE raw_data[CHOOSE i \in hits : \A j \in hits : i <= j].k
PotentialParents(raw_data) ==
  LET component_field == ComponentField(raw_data) IN
  IF Truthy(component_field) /\ Truthy(Get(raw_data, component_field))
  THEN SelectSeq(Runs(Get(raw_data, component_field), SerialTokenSet),
                 LAMBDA t : Len(t) >= MinTokenLen)
  ELSE << >>

\* Lines 1143-1150: the parents of one record, in token order
ParentsOf(combined, rec) ==
  SelectSeq(PotentialParents(rec.raw_data),
            LAMBDA p : p \in Serials(combined) /\ p # rec.serial_number)

\* parent_map as the sequence of its entries, in the order of combined_data
parent_map(combined) ==
  LET comps == SelectSeq([i \in 1..Len(combined) |-> i],
                         LAMBDA i : ParentsOf(combined, combined[i]) # << >>) IN
  [j \in 1..Len(comps) |-> [component_sn |-> combined[comps[j]].serial_number,
                            parent_sns |-> ParentsOf(combined, combined[comps[j]])]]

\* Lines 1162-1173: the component's field map is added to each parent that
\* is still in combined_data
RECURSIVE AddToParents(_, _, _, _)
AddToParents(combined, component_record, parent_sns, j) ==
  IF j > Len(parent_sns) THEN combined
  ELSE LET p == IndexOf(combined, parent_sns[j])
           entry == [component_sn |-> component_record.serial_number,
                     component_data |-> component_record.raw_data]
           next == IF p = 0 THEN combined
                   ELSE [combined EXCEPT ![p].raw_data =
                           Put(@, k_components,
                               Append(IF HasKey(@, k_components) THEN Get(@, k_components) ELSE << >>,
                                      entry))] IN
       AddToParents(next, component_record, parent_sns, j + 1)

\* A fold that leaves the component where it is.
Remove_Kept(combined, serial_number) ==
  combined
\* del combined_data[component_sn]
Remove(combined, serial_number) ==
  SelectSeq(combined, LAMBDA r : r.serial_number # serial_number)

\* Lines 1154-1176: every entry of parent_map in turn
RECURSIVE Fold(_, _, _)
Fold(combined, pmap, j) ==
  IF j > Len(pmap) THEN combined
  ELSE LET i == IndexOf(combined, pmap[j].component_sn) IN
       Fold(IF i = 0 THEN combined
            ELSE Remove(AddToParents(combined, combined[i], pmap[j].parent_sns, 1),
                        pmap[j].component_sn),
            pmap, j + 1)

\* Lines 1122-1176: detection and fold
Redistribute(combined) == Fold(combined, parent_map(combined), 1)

\* Lines 1194-1210: error_type replaced by its cleaned form
WithCleanedError(rec, cleaned_error) ==
  IF Truthy(rec.error_type) /\ cleaned_error # rec.error_type
  THEN [rec EXCEPT !.error_type = cleaned_error,
                   !.raw_data = Put(@, k_original_error_type, rec.error_type)]
  ELSE rec

\* Lines 1215-1238: the returned record
Finalized(rec, classification) ==
  LET rd1 == Put(Put(Put(rec.raw_data,
                         k_sheets_combined, Join(<<","," ">>, rec.sheets_found)),
                     k_total_sheets, Len(rec.sheets_found)),
                 k_column_classification, classification)
      rd2 == IF rec.error_sources # << >> THEN Put(rd1, k_error_sources, rec.error_sources) ELSE rd1
      rd3 == IF rec.diagnostic_info # << >> THEN Put(rd2, k_diagnostic_info, rec.diagnostic_info) ELSE rd2 IN
  [serial_number |-> rec.serial_number,
   error_type |-> rec.error_type,
   status |-> rec.status,
   source_filename |-> rec.source_filename,
   raw_data |-> rd3]
Finalize(combined, classification) ==
  [i \in 1..Len(combined) |-> Finalized(combined[i], classification)]
(***************************************************************************)
(* Upsert of the parsed records (main.py, lines 189-311).  A stored asset  *)
(* has the fields serial_number, error_type, status, source_filename and   *)
(* raw_data.                                                               *)
(***************************************************************************)
\* Lines 198-210: the first record of each serial number
RECURSIVE Deduped(_)
Deduped(records) ==
  IF records = << >> THEN << >>
  ELSE LET init == Deduped(SubSeq(records, 1, Len(records) - 1))
           last == records[Len(records)] IN
       IF last.serial_number \in Serials(init) THEN init ELSE Append(init, last)

\* Lines 245-279 for one entry of the new record's field map
MergeStoredField(raw_data, key, new_value) ==
  LET existing_key == ExistingKey(raw_data, key) IN
  IF IsMetaKey(key)
  THEN IF key = k_sheets_combined
       THEN IF HasKey(raw_data, k_sheets_combined) /\ Truthy(Get(raw_data, k_sheets_combined))
            THEN Put(raw_data, key, Get(raw_data, k_sheets_combined) \o s_SEP \o new_value)
            ELSE Put(raw_data, key, new_value)
       ELSE IF key = k_total_sheets
       THEN Put(raw_data, key,
                (IF HasKey(raw_data, k_total_sheets) THEN Get(raw_data, k_total_sheets) ELSE 0)
                + new_value)
       ELSE IF key \notin {k_source_sheet, k_source_row, k_serial_column}
       THEN Put(raw_data, key, new_value)
       ELSE raw_data
  ELSE IF Truthy(existing_key)
       THEN IF Get(raw_data, existing_key) # new_value
            THEN Put(raw_data, existing_key, Get(raw_data, existing_key) \o s_SEP \o new_value)
            ELSE raw_data
       ELSE Put(raw_data, key, new_value)

RECURSIVE MergeStoredFields(_, _, _)
MergeStoredFields(raw_data, new_raw_data, j) ==
  IF j > Len(new_raw_data) THEN raw_data
  ELSE MergeStoredFields(MergeStoredField(raw_data, new_raw_data[j].k, new_raw_data[j].v),
                         new_raw_data, j + 1)

\* Lines 226-291: the stored asset after a record of a later file
MergedAsset(existing_asset, record) ==
  LET existing_files == IF HasKey(existing_asset.raw_data, k_files_combined)
                        THEN Get(existing_asset.raw_data, k_files_combined)
                        ELSE existing_asset.source_filename
      rd0 == Put(existing_asset.raw_data, k_files_combined,
                 IF ~Contains(record.source_filename, existing_files)
                 THEN existing_files \o s_SEP \o record.source_filename
                 ELSE existing_files) IN
  [serial_number |-> existing_asset.serial_number,
   error_type |-> IF Truthy(record.error_type) THEN record.error_type ELSE existing_asset.error_type,
   status |-> IF Truthy(record.status) THEN record.status ELSE existing_asset.status,
   source_filename |-> record.source_filename,
   raw_data |-> MergeStoredFields(rd0, record.raw_data, 1)]

\* Line 299: what the commit stores of an asset that was changed in memory.
\* error_type, status and source_filename are assigned (lines 282-288);
\* raw_data is a dict changed in place (lines 242-279) in a column declared
\* Column(JSON) (models.py, line 68), and nothing marks the attribute as
\* modified (as normalize_existing_data.py, line 55, does), so whether the
\* changed dict is written back is the mapper's change tracking: tracked
\* says it is.
Committed(existing_asset, merged, tracked) ==
  IF tracked THEN merged ELSE [merged EXCEPT !.raw_data = existing_asset.raw_data]

\* Lines 220-299: every record in turn
RECURSIVE Upserted(_, _, _, _)
Upserted(assets, records, j, tracked) ==
  IF j > Len(records) THEN assets
  ELSE Upserted(IF IndexOf(assets, records[j].serial_number) = 0
                THEN Append(assets, records[j])
                ELSE [assets EXCEPT ![IndexOf(assets, records[j].serial_number)] =
                        Committed(@, MergedAsset(@, records[j]), tracked)],
                records, j + 1, tracked)

\* Lines 137-160: the file name is already that of a stored asset or part of
\* a stored _files_combined
AlreadyUploaded(assets, filename) ==
  \E i \in 1..Len(assets) :
     \/ assets[i].source_filename = filename
     \/ /\ HasKey(assets[i].raw_data, k_files_combined)
        /\ Contains(filename, Get(assets[i].raw_data, k_files_combined))

file_extensions ==
  << <<".","x","l","s","x">>, <<".","x","l","s">>, <<".","x","l","s","b">>, <<".","p","p","t","x">> >>
EndsWith(s, suffix) ==
  Len(suffix) <= Len(s) /\ SubSeq(s, Len(s) - Len(suffix) + 1, Len(s)) = suffix
\* Line 127
SupportedFile(filename) == \E k \in 1..Len(file_extensions) : EndsWith(filename, file_extensions[k])

(***************************************************************************)
(* Slide decks: the assets of one table of a slide (pptx_parser.py, lines  *)
(* 306-403).  The table is its columns and rows; _source_slide, the column *)
(* that _extract_tables_from_slide adds (line 147), is the argument slide. *)
(***************************************************************************)
k_source_slide == <<"_", "source_slide">>
k_extraction_method == <<"_", "extraction_method">>
deck_error_keywords ==
  << <<"e","r","r","o","r">>, <<"f","a","i","l","u","r","e">>, <<"i","s","s","u","e">>, <<"s","y","m","p","t","o","m">>, <<"p","r","o","b","l","e","m">>, <<"f","a","i","l">>, <<"t","y","p","e">>,
     <<"f","a","i","l","u","r","e"," ","t","y","p","e">>, <<"U+6545","U+969C">>, <<"U+9519","U+8BEF">>, <<"d","e","f","e","c","t">> >>
deck_status_keywords ==
  << <<"s","t","a","t","u","s">>, <<"s","t","a","t","e">>, <<"c","o","n","d","i","t","i","o","n">>, <<"U+72B6","U+6001">>, <<"f","a"," ","s","t","a","t","u","s">> >>

\* The first column whose name holds one of the keywords, 0 for None.
FirstColumnWith(columns, keywords) ==
  IF \E c \in 1..Len(columns) : ContainsAny(keywords, Strip(Lower(columns[c])))
  THEN CHOOSE c \in 1..Len(columns) :
         /\ ContainsAny(keywords, Strip(Lower(columns[c])))
         /\ \A o \in 1..(c - 1) : ~ContainsAny(keywords, Strip(Lower(columns[o])))
  ELSE 0

\* The value of the row in the column, stripped; None without column or value.
DeckValue(row, c) ==
  IF c # 0 /\ Truthy(clean_value(row[c])) /\ Truthy(Strip(clean_value(row[c])))
  THEN Strip(clean_value(row[c])) ELSE None

\* raw_data of a row of the table (lines 364-379)
RECURSIVE DeckRawData(_, _, _, _, _)
DeckRawData(columns, row, slide, customer_from_filename, c) ==
  IF c = 0
  THEN IF /\ Truthy(customer_from_filename)
          /\ ~\E o \in 1..Len(columns) : Contains(<<"c","u","s","t","o","m","e","r">>, Lower(normalize_column_name(columns[o])))
       THEN << [k |-> k_source_slide, v |-> slide],
               [k |-> k_extraction_method, v |-> <<"n","a","t","i","v","e","_","t","a","b","l","e">>],
               [k |-> k_Customer, v |-> customer_from_filename] >>
       ELSE << [k |-> k_source_slide, v |-> slide],
               [k |-> k_extraction_method, v |-> <<"n","a","t","i","v","e","_","t","a","b","l","e">>] >>
  ELSE IF clean_value(row[c]) # None
  THEN << [k |-> columns[c], v |-> clean_value(row[c])] >>
       \o DeckRawData(columns, row, slide, customer_from_filename, (c + 1) % (Len(columns) + 1))
  ELSE DeckRawData(columns, row, slide, customer_from_filename, (c + 1) % (Len(columns) + 1))

\* str(row[serial_column]).strip()
RawDeckSerial(cell) == Strip(IF cell = None THEN <<"n","a","n">> ELSE cell)

\* The asset of a row (lines 381-401)
DeckAsset(columns, row, serial_column, slide, source_filename, customer_from_filename) ==
  [serial_number |-> RawDeckSerial(row[serial_column]),
   error_type |-> DeckValue(row, FirstColumnWith(columns, deck_error_keywords)),
   status |-> DeckValue(row, FirstColumnWith(columns, deck_status_keywords)),
   source_filename |-> source_filename,
   raw_data |-> DeckRawData(columns, row, slide, customer_from_filename, 1)]

\* _dataframe_to_assets: no asset without identity column; a row whose
\* identity cell is empty or a placeholder is left out (lines 357-361).
_dataframe_to_assets(columns, rows, slide, source_filename, customer_from_filename) ==
  IF detect_serial_column(columns, rows) = 0 THEN << >>
  ELSE [i \in 1..Len(SelectSeq(rows, LAMBDA row :
               ~InList(Lower(RawDeckSerial(row[detect_serial_column(columns, rows)])),
                       invalid_serial_words))) |->
          DeckAsset(columns,
                    SelectSeq(rows, LAMBDA row :
                      ~InList(Lower(RawDeckSerial(row[detect_serial_column(columns, rows)])),
                              invalid_serial_words))[i],
                    detect_serial_column(columns, rows), slide, source_filename,
                    customer_from_filename)]
(***************************************************************************)
(* Inputs of the model: file names, sheets and rows.                       *)
(***************************************************************************)
MaxRows == 2
MaxSheets == 2
MaxFiles == 2

\* Identities: the scenario of the specification, a strict-format serial,
\* a serial without suffix.
SN_A ==
  <<"9","A","B","1","2","3","4","5","6","7","8","9","_","1","0","0","-","0","0","0","0","0","0","0","0","1">>
SN_B ==
  <<"2","A","B","S","7","8","4","R","5","0","0","4","_","1","0","0","-","0","0","0","0","0","0","0","0","1","3","5","9">>
SN_C ==
  <<"9","A","H","0","2","4","2","W","5","0","0","1","0">>
\* Identity cells that are not plain serials.
CELL_FARM ==
  <<"F","A","R","M","-","3","6","0","2">>
CELL_NFF ==
  <<"9","N","F","F","1","2","3","4","5","6","7","8","_","1","0","0","-","0","0","0","0","0","0","0","0","1">>
CELL_LINES ==
  <<"1","2","3","4","5","6","7","8","9","0","\n","9","A","B","1","2","3","4","5","6","7","8","9","_","1","0","0","-","0","0","0","0","0","0","0","0","1">>

CELL_LONG ==
  <<"1","2","3","4","5","6","7","8","9","0","/","/","/","/","/",".","/","/","/","/",".","/","/","/","/",".","/","/","/","/",".","/","/","/","/",".">>

c_CPU_SN ==
  <<"C","P","U","_","S","N">>
c_Failtype ==
  <<"F","a","i","l","t","y","p","e">>
c_Status ==
  <<"S","t","a","t","u","s">>
c_Location ==
  <<"L","o","c","a","t","i","o","n">>
c_location2 ==
  <<" ","l","o","c","a","t","i","o","n">>
c_Customer ==
  <<"C","u","s","t","o","m","e","r">>
c_Component ==
  <<"C","o","m","p","o","n","e","n","t">>

v_CacheECC ==
  <<"C","a","c","h","e"," ","E","C","C">>
v_ECCsp ==
  <<"E","C","C"," ">>
v_Http ==
  <<"h","t","t","p"," ","5","0","0">>
v_Fail ==
  <<"F","a","i","l">>
v_Pass ==
  <<"P","a","s","s">>
v_Austin ==
  <<"A","u","s","t","i","n">>
v_Suzhou ==
  <<"S","u","z","h","o","u">>
v_Tencent ==
  <<"T","e","n","c","e","n","t">>
v_RMA ==
  <<"R","M","A">>

LayFail == << c_CPU_SN, c_Failtype, c_Status >>
LayLoc == << c_CPU_SN, c_Location, c_Customer >>
LayComp == << c_CPU_SN, c_location2, c_Component >>
Layouts == {LayFail, LayLoc, LayComp}

\* The rows a sheet of each layout may hold.
RowsOf(columns) ==
  IF columns = LayFail
  THEN { << SN_A, v_CacheECC, v_Fail >>, << SN_A, v_ECCsp, v_Pass >>,
         << CELL_FARM, v_CacheECC, v_Fail >>, << CELL_LINES, v_Http, None >> }
  ELSE IF columns = LayLoc
  THEN { << SN_A, v_Austin, v_Tencent >>, << SN_A, v_Suzhou, v_RMA >>,
         << CELL_NFF, v_Austin, v_Tencent >>, << CELL_LONG, None, None >> }
  ELSE { << SN_A, v_Suzhou, SN_B >>, << SN_B, None, SN_C >>, << SN_B, None, SN_A >>,
         << SN_C, None, None >> }

FileNames ==
  { <<"f","a",".","x","l","s","x">>, <<"T","e","n","c","e","n","t","_","F","A",".","x","l","s","x">> }
SheetNames ==
  << <<"S","h","e","e","t","1">>, <<"S","h","e","e","t","2">>, <<"S","h","e","e","t","3">> >>

\* Sequences over S of length 0..n
RECURSIVE SeqsUpTo(_, _)
SeqsUpTo(S, n) ==
  IF n = 0 THEN { << >> }
  ELSE LET shorter == SeqsUpTo(S, n - 1) IN
       shorter \cup {Append(q, x) : q \in {p \in shorter : Len(p) = n - 1}, x \in S}

\* The answers of the remote classifier a run of the model can get for the
\* columns of a file: the roles of the local fallback, with the identity
\* column named.
OracleAnswers(columns) ==
  { [json |-> TRUE,
     classifications |-> [c \in columns |-> CategoryText[_classify_single_column(c)]],
     serial_number_column |-> c_CPU_SN,
     error_extraction_column |-> None] }

(***************************************************************************)
(* State.                                                                  *)
(***************************************************************************)
VARIABLES
  api_token,              \* NABU_API_TOKEN is set in the environment
  assets,                 \* the stored assets, as the session holds them
  pc,                     \* the control point of upload_file / parse_excel
  file,                   \* the uploaded file: its name and its sheets
  classification_result,  \* the result of classify_columns for this file
  sheet_i,                \* sheets of the second pass already left behind
  df,                     \* the rows of the sheet being processed
  idx,                    \* rows of df already left behind
  ctx,                    \* the locals of the sheet being processed
  combined_data,          \* identity -> record, in insertion order
  results,                \* the list parse_excel returns
  response,               \* the last answer of upload_file
  uploads,                \* uploads started so far
  rows_read,              \* rows read so far, over all sheets and files
  sheets_opened,          \* sheets of the files uploaded so far
  sightings,              \* history: the accepted rows, in order
  id_cells,               \* history: the identity cells read in this run
  oracle_calls,           \* history: calls of the remote service in this run
  raised,                 \* history: the sheets of this run whose processing raised
  call,                   \* a call of one function: its name, arguments, result
  runs                    \* calls of parse_excel in progress side by side: their locals

vars == << api_token, assets, pc, file, classification_result, sheet_i, df, idx, ctx,
           combined_data, results, response, uploads, rows_read, sheets_opened, sightings,
           id_cells, oracle_calls, raised, call, runs >>

NoFile == [filename |-> << >>, sheets |-> << >>]
NoClassification ==
  [classifications |-> << >>, serial_number_column |-> None, error_extraction_column |-> None]
NoContext == [sheet_name |-> << >>]
NoCall == [op |-> "none", args |-> << >>, result |-> << >>]

\* The variables parse_excel and upload_file do not touch.
fn_vars == << call, runs >>

Init ==
  /\ api_token \in BOOLEAN
  /\ assets = << >>
  /\ pc = "idle"
  /\ file = NoFile
  /\ classification_result = NoClassification
  /\ sheet_i = 0
  /\ df = << >>
  /\ idx = 0
  /\ ctx = NoContext
  /\ combined_data = << >>
  /\ results = << >>
  /\ response = "none"
  /\ uploads = 0
  /\ rows_read = 0
  /\ sheets_opened = 0
  /\ sightings = << >>
  /\ id_cells = {}
  /\ oracle_calls = 0
  /\ raised = {}
  /\ call = NoCall
  /\ runs = << >>

(***************************************************************************)
(* upload_file (main.py, lines 126-196) up to the call of parse_excel, and *)
(* parse_excel up to the first pass (parser.py, lines 538-559).            *)
(***************************************************************************)
Upload ==
  /\ pc = "idle"
  /\ uploads < MaxFiles
  /\ rows_read < MaxRows
  /\ \E filename \in FileNames : \E n \in 1..(MaxSheets - sheets_opened) :
     \E lay \in [1..n -> Layouts] :
       /\ uploads' = uploads + 1
       /\ IF ~SupportedFile(filename) \/ AlreadyUploaded(assets, filename)
          THEN /\ response' = "400"
               /\ UNCHANGED << pc, file, sheets_opened >>
          ELSE /\ file' = [filename |-> filename,
                           sheets |-> [i \in 1..n |-> [name |-> SheetNames[i], columns |-> lay[i]]]]
               /\ sheets_opened' = sheets_opened + n
               /\ pc' = "classify"
               /\ response' = "none"
  /\ UNCHANGED << fn_vars, oracle_calls, raised, api_token, assets, classification_result, sheet_i, df, idx, ctx, combined_data,
                  results, rows_read, sightings, id_cells >>

(***************************************************************************)
(* First pass and classification (parser.py, lines 567-656;                *)
(* column_classifier.py, lines 53-137).                                    *)
(***************************************************************************)
\* all_columns_across_sheets after the first pass
FirstPassColumns(f) ==
  UNION {{f.sheets[i].columns[c] : c \in 1..Len(f.sheets[i].columns)} :
         i \in {j \in 1..Len(f.sheets) : ~SkippedByName(f.sheets[j].name, Len(f.sheets))}}

PeekRows == 50
MaxSampleRows == 5
\* Lines 603-622: the rows among the first 50 of a sheet with a cell that
\* holds the AMD pattern.
SampleRowsIn(rows) ==
  Cardinality({r \in 1..(IF Len(rows) < PeekRows THEN Len(rows) ELSE PeekRows) :
                 \E c \in 1..Len(rows[r]) :
                    rows[r][c] # None /\ AMD_CPU_SERIAL_SEARCH_PATTERN(Strip(rows[r][c]))})

\* all_columns_across_sheets when classify_columns is called (line 641), for
\* sheets whose rows are known: the loop of lines 577-633 adds the columns
\* of a sheet, counts its sample rows, and is left at the sheet at which the
\* fifth sample row was found (lines 622-626).
RECURSIVE all_columns_across_sheets(_, _, _, _)
all_columns_across_sheets(sheets, i, columns, sample_rows) ==
  IF i > Len(sheets) THEN columns
  ELSE IF SkippedByName(sheets[i].name, Len(sheets))
  THEN all_columns_across_sheets(sheets, i + 1, columns, sample_rows)
  ELSE LET Peeked(cols, n) ==
             IF n >= MaxSampleRows THEN cols
             ELSE all_columns_across_sheets(sheets, i + 1, cols, n) IN
       Peeked(columns \cup {sheets[i].columns[c] : c \in 1..Len(sheets[i].columns)},
              sample_rows + SampleRowsIn(sheets[i].rows))

\* The sheets whose rows the second pass processes (lines 696-818): not
\* skipped, and with an identity column.
ProcessedSheets(sheets, ai_serial_column) ==
  {i \in 1..Len(sheets) :
     /\ SheetVerdict(sheets[i].name, Len(sheets), Len(sheets[i].rows)) = "data"
     /\ SerialColumnOf(sheets[i].columns,
                       FillCustomerColumns(sheets[i].columns, sheets[i].rows, 1),
                       ai_serial_column) # 0}

\* A fallback that gives a role to the first column of the request only.
_fallback_classification_FirstOnly(columns) ==
  IF columns = << >> THEN << >>
  ELSE [col \in {columns[c] : c \in 1..Len(columns)} |->
          IF col = columns[1] THEN _classify_single_column(col) ELSE "IGNORE"]
\* _fallback_classification (lines 299-306): the loop over the list of
\* columns, each classified by its name.
RECURSIVE _fallback_classification(_)
_fallback_classification(columns) ==
  IF columns = << >> THEN << >>
  ELSE LET With(classification, col) ==
             [c \in DOMAIN classification \cup {col} |->
                IF c = col THEN _classify_single_column(col) ELSE classification[c]] IN
       With(_fallback_classification(SubSeq(columns, 1, Len(columns) - 1)),
            columns[Len(columns)])

\* The result built from the fallback, for the set of columns of a file
FallbackResult(columns) ==
  [classifications |-> [c \in columns |-> _classify_single_column(c)],
   serial_number_column |-> None,
   error_extraction_column |-> None]

\* A JSON string is a text, null is None.
IsStr(value) == value # None

\* _parse_nabu_response (lines 254-297).  The response either holds no JSON
\* object that json.loads accepts, or it is a JSON object: its column
\* entries (a function from column names to JSON values) and its two
\* column names.  category.upper() raises on a value that is no string;
\* the exception is caught at line 291 and the whole answer is replaced.
_parse_nabu_response(reply, columns) ==
  IF ~reply.json THEN FallbackResult(columns)
  ELSE IF \E col \in DOMAIN reply.classifications : ~IsStr(reply.classifications[col])
  THEN FallbackResult(columns)
  ELSE [classifications |->
          [col \in DOMAIN reply.classifications |->
             IF \E r \in CATEGORIES : CategoryText[r] = Upper(reply.classifications[col])
             THEN CHOOSE r \in CATEGORIES : CategoryText[r] = Upper(reply.classifications[col])
             ELSE _classify_single_column(col)],
        serial_number_column |-> reply.serial_number_column,
        error_extraction_column |-> reply.error_extraction_column]

\* What nabu_client.chat does: it raises, or it returns a reply.
ChatRaises == [raises |-> TRUE]
ChatReturns(reply) == [raises |-> FALSE, response |-> reply]

\* A classify_columns that lets the exception of the call pass: nothing is
\* returned.
classify_columns_Uncaught(columns, nabu_client, chat) ==
  IF columns = {} THEN NoClassification
  ELSE IF ~nabu_client THEN FallbackResult(columns)
  ELSE IF chat.raises THEN NoClassification
  ELSE _parse_nabu_response(chat.response, columns)
\* classify_columns (lines 53-137): nabu_client is None without the token;
\* an exception of the call is caught at line 130.
classify_columns(columns, nabu_client, chat) ==
  IF columns = {} THEN NoClassification
  ELSE IF ~nabu_client THEN FallbackResult(columns)
  ELSE IF chat.raises THEN FallbackResult(columns)
  ELSE _parse_nabu_response(chat.response, columns)

\* The results classify_columns can return for the columns of the file.
ClassifyResults(columns, token) ==
  { classify_columns(columns, token, chat) :
      chat \in {ChatRaises} \cup {ChatReturns(r) : r \in OracleAnswers(columns)} }

\* The locals of parse_excel and upload_file are gone when the request ends.
Ended ==
  /\ pc' = "idle"
  /\ file' = NoFile
  /\ classification_result' = NoClassification
  /\ sheet_i' = 0
  /\ df' = << >>
  /\ idx' = 0
  /\ ctx' = NoContext
  /\ combined_data' = << >>
  /\ results' = << >>
  /\ id_cells' = {}
  /\ oracle_calls' = 0
  /\ raised' = {}

Classify ==
  /\ pc = "classify"
  /\ classification_result' \in ClassifyResults(FirstPassColumns(file), api_token)
  /\ oracle_calls' = IF FirstPassColumns(file) # {} /\ api_token THEN 1 ELSE 0
  /\ pc' = "sheets"
  /\ UNCHANGED << fn_vars, raised, api_token, assets, file, sheet_i, df, idx, ctx, combined_data, results,
                  response, uploads, rows_read, sheets_opened, sightings, id_cells >>

(***************************************************************************)
(* Second pass (parser.py, lines 694-1081).                                *)
(***************************************************************************)

\* Lines 696-856: the next sheet is read; it is skipped, or its row loop
\* begins.
BeginSheet ==
  /\ pc = "sheets"
  /\ sheet_i < Len(file.sheets)
  /\ LET sheet == file.sheets[sheet_i + 1] IN
     IF SkippedByName(sheet.name, Len(file.sheets))
     THEN /\ sheet_i' = sheet_i + 1
          /\ UNCHANGED << pc, df, idx, ctx, rows_read >>
     ELSE \E rows \in SeqsUpTo(RowsOf(sheet.columns), MaxRows - rows_read) :
            LET Read(filled, c) ==
                  /\ rows_read' = rows_read + Len(rows)
                  /\ IF \/ SheetVerdict(sheet.name, Len(file.sheets), Len(rows)) # "data"
                        \/ c.serial_column = 0
                     THEN /\ sheet_i' = sheet_i + 1
                          /\ UNCHANGED << pc, df, idx, ctx >>
                     ELSE /\ df' = filled
                          /\ idx' = 0
                          /\ ctx' = c
                          /\ pc' = "rows"
                          /\ UNCHANGED sheet_i IN
            Read(FillCustomerColumns(sheet.columns, rows, 1),
                 SheetContext(file.filename, sheet.name, sheet.columns,
                              FillCustomerColumns(sheet.columns, rows, 1),
                              classification_result.classifications,
                              classification_result.serial_number_column,
                              classification_result.error_extraction_column))
  /\ UNCHANGED << fn_vars, oracle_calls, raised, api_token, assets, file, classification_result, combined_data, results,
                  response, uploads, sheets_opened, sightings, id_cells >>

\* Lines 859-1076: one row of the sheet; after the last row the second
\* pass goes on with the next sheet.
ProcessRow ==
  /\ pc = "rows"
  /\ idx < Len(df)
  /\ LET row == df[idx + 1]
         cell == row[ctx.serial_column] IN
     /\ combined_data' = ProcessRowOf(combined_data, ctx, idx, row)
     /\ id_cells' = id_cells \cup {cell}
     /\ sightings' = IF RowAccepted(cell)
                     THEN Append(sightings, [upload |-> uploads,
                                             serial_number |-> SerialOfCell(cell),
                                             cell |-> cell,
                                             sheet |-> sheet_i + 1,
                                             columns |-> ctx.columns,
                                             row |-> row])
                     ELSE sightings
  /\ idx' = idx + 1
  /\ IF idx + 1 = Len(df)
     THEN pc' = "sheets" /\ sheet_i' = sheet_i + 1
     ELSE UNCHANGED << pc, sheet_i >>
  /\ UNCHANGED << fn_vars, oracle_calls, raised, api_token, assets, file, classification_result, df, ctx, results,
                  response, uploads, rows_read, sheets_opened >>

\* combined_data after the except clause of the sheet loop (lines 1078-1081):
\* the clause prints a warning and continues.
AfterException_Cleared(combined) ==
  << >>
AfterException(combined) ==
  combined

\* Lines 697 and 1078-1081: reading the next sheet, or a row of the sheet
\* being processed, raises; the second pass goes on with the next sheet.
SheetRaises ==
  /\ IF pc = "sheets"
     THEN sheet_i < Len(file.sheets) /\ ~SkippedByName(file.sheets[sheet_i + 1].name, Len(file.sheets))
     ELSE pc = "rows" /\ idx < Len(df)
  /\ raised' = raised \cup {sheet_i + 1}
  /\ combined_data' = AfterException(combined_data)
  /\ sheet_i' = sheet_i + 1
  /\ pc' = "sheets"
  /\ UNCHANGED << fn_vars, oracle_calls, api_token, assets, file, classification_result, df, idx,
                  ctx, results, response, uploads, rows_read, sheets_opened, sightings, id_cells >>

(***************************************************************************)
(* End of the run (parser.py, lines 1083-1240) and the answer of           *)
(* upload_file (main.py, lines 177-311).                                   *)
(***************************************************************************)
\* Lines 1083-1117 and main.py 177-178: no record at all is a ValueError,
\* which upload_file answers with status 400; otherwise the records get
\* their sheet summaries and the customer of the file name.
CheckData ==
  /\ pc = "sheets"
  /\ sheet_i = Len(file.sheets)
  /\ IF combined_data = << >>
     THEN response' = "400" /\ Ended
     ELSE /\ combined_data' = BackfillCustomer(AddSummaries(combined_data))
          /\ pc' = "redistribute"
          /\ UNCHANGED << file, classification_result, sheet_i, df, idx, ctx, results, response,
                          id_cells, oracle_calls, raised >>
  /\ UNCHANGED << fn_vars, api_token, assets, uploads, rows_read, sheets_opened, sightings >>

RedistributeComponents ==
  /\ pc = "redistribute"
  /\ combined_data' = Redistribute(combined_data)
  /\ pc' = "clean"
  /\ UNCHANGED << fn_vars, oracle_calls, raised, api_token, assets, file, classification_result, sheet_i, df, idx, ctx,
                  results, response, uploads, rows_read, sheets_opened, sightings, id_cells >>

\* Lines 1182-1210: each record's error_type is cleaned; the cleaned value
\* is one of those clean_error_type_with_nabu can return.
CleanErrors ==
  /\ pc = "clean"
  /\ \E cleaned \in [1..Len(combined_data) ->
                       UNION {clean_error_type_with_nabu(combined_data[i].error_type, api_token) :
                              i \in 1..Len(combined_data)}] :
       /\ \A i \in 1..Len(combined_data) :
            cleaned[i] \in clean_error_type_with_nabu(combined_data[i].error_type, api_token)
       /\ combined_data' = [i \in 1..Len(combined_data) |->
                              WithCleanedError(combined_data[i], cleaned[i])]
  /\ oracle_calls' = oracle_calls + Cardinality({i \in 1..Len(combined_data) :
                                          OracleAsked(combined_data[i].error_type, api_token)})
  /\ pc' = "finalize"
  /\ UNCHANGED << fn_vars, raised, api_token, assets, file, classification_result, sheet_i, df, idx, ctx,
                  results, response, uploads, rows_read, sheets_opened, sightings, id_cells >>

\* Lines 1215-1240: parse_excel returns
Return ==
  /\ pc = "finalize"
  /\ results' = Finalize(combined_data, classification_result.classifications)
  /\ pc' = "upsert"
  /\ UNCHANGED << fn_vars, oracle_calls, raised, api_token, assets, file, classification_result, sheet_i, df, idx, ctx,
                  combined_data, response, uploads, rows_read, sheets_opened, sightings, id_cells >>

\* main.py, lines 189-311
Upsert ==
  /\ pc = "upsert"
  /\ IF results = << >>
     THEN response' = "no valid records" /\ UNCHANGED assets
     ELSE /\ response' = "processed"
          /\ \E tracked \in BOOLEAN : assets' = Upserted(assets, Deduped(results), 1, tracked)
  /\ Ended
  /\ UNCHANGED << fn_vars, api_token, uploads, rows_read, sheets_opened, sightings >>

Next ==
  \/ Upload
  \/ Classify
  \/ BeginSheet
  \/ ProcessRow
  \/ SheetRaises
  \/ CheckData
  \/ RedistributeComponents
  \/ CleanErrors
  \/ Return
  \/ Upsert

Spec == Init /\ [][Next]_vars

(***************************************************************************)
(* parse_excel as a function of a file whose rows are known: the locals of *)
(* a call (parser.py, lines 567-575 and 691-692) and its steps, which are  *)
(* those of Spec without a client of the remote service.                   *)
(***************************************************************************)
\* The locals of parse_excel when it is called with the file.
StartRun(f) ==
  [file |-> f, pc |-> "classify", classification_result |-> NoClassification, sheet_i |-> 0,
   df |-> << >>, idx |-> 0, ctx |-> NoContext, combined_data |-> << >>, results |-> << >>,
   failed |-> FALSE]

\* Lines 696-856 for the sheet: skipped, or its row loop begins.
SheetBegun(l, sheet) ==
  LET Read(filled, c) ==
        IF \/ SheetVerdict(sheet.name, Len(l.file.sheets), Len(sheet.rows)) # "data"
           \/ c.serial_column = 0
        THEN [l EXCEPT !.sheet_i = @ + 1]
        ELSE [l EXCEPT !.df = filled, !.idx = 0, !.ctx = c, !.pc = "rows"] IN
  IF SkippedByName(sheet.name, Len(l.file.sheets)) THEN [l EXCEPT !.sheet_i = @ + 1]
  ELSE Read(FillCustomerColumns(sheet.columns, sheet.rows, 1),
            SheetContext(l.file.filename, sheet.name, sheet.columns,
                         FillCustomerColumns(sheet.columns, sheet.rows, 1),
                         l.classification_result.classifications,
                         l.classification_result.serial_number_column,
                         l.classification_result.error_extraction_column))

\* The locals after the next step of the call, combined being the identity
\* map the step reads: the steps are those of Spec.
NextLocals(l, combined) ==
  IF l.pc = "classify"
  THEN [l EXCEPT !.classification_result =
                    classify_columns(all_columns_across_sheets(l.file.sheets, 1, {}, 0), FALSE, ChatRaises),
                 !.pc = "sheets"]
  ELSE IF l.pc = "sheets" /\ l.sheet_i < Len(l.file.sheets)
  THEN SheetBegun(l, l.file.sheets[l.sheet_i + 1])
  ELSE IF l.pc = "sheets" /\ combined = << >>
  THEN [l EXCEPT !.failed = TRUE, !.pc = "done"]
  ELSE IF l.pc = "sheets"
  THEN [l EXCEPT !.combined_data = BackfillCustomer(AddSummaries(combined)),
                 !.pc = "redistribute"]
  ELSE IF l.pc = "rows"
  THEN [l EXCEPT !.combined_data = ProcessRowOf(combined, l.ctx, l.idx, l.df[l.idx + 1]),
                 !.idx = @ + 1,
                 !.sheet_i = IF l.idx + 1 = Len(l.df) THEN @ + 1 ELSE @,
                 !.pc = IF l.idx + 1 = Len(l.df) THEN "sheets" ELSE "rows"]
  ELSE IF l.pc = "redistribute"
  THEN [l EXCEPT !.combined_data = Redistribute(combined), !.pc = "clean"]
  ELSE IF l.pc = "clean"
  THEN [l EXCEPT !.combined_data =
                    [i \in 1..Len(combined) |->
                       WithCleanedError(combined[i],
                         CHOOSE cleaned \in clean_error_type_with_nabu(combined[i].error_type, FALSE) :
                           TRUE)],
                 !.pc = "finalize"]
  ELSE [l EXCEPT !.results = Finalize(combined, l.classification_result.classifications),
                 !.pc = "done"]

\* The locals at the return of a call that runs alone.
RECURSIVE Finished(_)
Finished(l) ==
  IF l.pc = "done" THEN l ELSE Finished(NextLocals(l, l.combined_data))


(***************************************************************************)
(* What the properties below observe of a run.                             *)
(***************************************************************************)
\* The accepted rows of the current run that carry the identity (lines
\* 914-956), as positions of sightings
SightingsOf(serial_number) ==
  {a \in 1..Len(sightings) : /\ sightings[a].upload = uploads
                             /\ sightings[a].serial_number = serial_number}

\* value of line 1043 for column c of the sighting a
ValueAt(a, c) == clean_value(sightings[a].row[c])

\* The test of lines 1070-1071 for column c of the sighting a
Rejected(a, c) ==
  /\ RoleOf(classification_result.classifications, sightings[a].columns[c]) = "CUSTOMER"
  /\ ~is_valid_customer_value(ValueAt(a, c))

\* The entries of _components (lines 1167-1173), at every depth
RECURSIVE NestedComponents(_)
NestedComponents(raw_data) ==
  IF ~HasKey(raw_data, k_components) THEN {}
  ELSE LET entries == Get(raw_data, k_components) IN
       {entries[j] : j \in 1..Len(entries)}
       \cup UNION {NestedComponents(entries[j].component_data) : j \in 1..Len(entries)}

\* The field maps a list of records holds for an identity, at the top level
\* or in an entry of _components
FieldMapsOf(records, serial_number) ==
  {records[i].raw_data : i \in {j \in 1..Len(records) : records[j].serial_number = serial_number}}
  \cup {e.component_data : e \in {x \in UNION {NestedComponents(records[i].raw_data) :
                                                i \in 1..Len(records)} :
                                    x.component_sn = serial_number}}

(***************************************************************************)
(* Properties.                                                             *)
(***************************************************************************)
\* C1: the identity map and the list parse_excel returns hold at most one
\* asset per identity, however many rows and sheets sighted it.
C1_OnePerIdentity ==
  /\ \A i, j \in 1..Len(results) :
       results[i].serial_number = results[j].serial_number => i = j
  /\ \A i, j \in 1..Len(combined_data) :
       combined_data[i].serial_number = combined_data[j].serial_number => i = j

\* A returned asset whose identity was sighted on two rows of the run.
C1_Witness ==
  /\ pc = "upsert"
  /\ \E i \in 1..Len(results) : Cardinality(SightingsOf(results[i].serial_number)) >= 2

\* C2 (as stated): once error_type or status of a record is non-empty, no
\* step of the run changes it, and the returned asset carries it.
C2_Original ==
  [][/\ \A i \in 1..Len(combined_data) : \A j \in 1..Len(combined_data') :
          combined_data'[j].serial_number = combined_data[i].serial_number =>
            /\ Truthy(combined_data[i].status) =>
                 combined_data'[j].status = combined_data[i].status
            /\ Truthy(combined_data[i].error_type) =>
                 combined_data'[j].error_type = combined_data[i].error_type
     /\ pc = "finalize" =>
          /\ Len(results') = Len(combined_data)
          /\ \A i \in 1..Len(combined_data) :
               /\ results'[i].status = combined_data[i].status
               /\ results'[i].error_type = combined_data[i].error_type]_vars

\* C2 (amended): once error_type or status of a record is non-empty, no
\* later sighting changes it; the only step that changes error_type is the
\* cleaning at the end of the run, which puts the cleaned form in its place
\* and keeps the original under _original_error_type; status is never
\* changed, and the returned asset carries both as they then are.
C2_StickyUntilCleaned ==
  [][/\ \A i \in 1..Len(combined_data) : \A j \in 1..Len(combined_data') :
          combined_data'[j].serial_number = combined_data[i].serial_number =>
            /\ Truthy(combined_data[i].status) =>
                 combined_data'[j].status = combined_data[i].status
            /\ Truthy(combined_data[i].error_type) =>
                 \/ combined_data'[j].error_type = combined_data[i].error_type
                 \/ /\ pc = "clean"
                    /\ combined_data'[j].error_type
                         \in clean_error_type_with_nabu(combined_data[i].error_type, api_token)
                    /\ HasKey(combined_data'[j].raw_data, k_original_error_type)
                    /\ Get(combined_data'[j].raw_data, k_original_error_type)
                         = combined_data[i].error_type
     /\ pc = "finalize" =>
          /\ Len(results') = Len(combined_data)
          /\ \A i \in 1..Len(combined_data) :
               /\ results'[i].status = combined_data[i].status
               /\ results'[i].error_type = combined_data[i].error_type]_vars

\* The identity was sighted with "Cache ECC"/"Fail" and later with
\* "ECC "/"Pass"; the returned asset has the values of the first sighting.
C2_Witness ==
  /\ pc = "upsert"
  /\ \E i \in 1..Len(results) :
       /\ results[i].error_type = v_CacheECC
       /\ results[i].status = v_Fail
       /\ \E a, b \in SightingsOf(results[i].serial_number) :
            /\ a < b
            /\ sightings[a].row = << SN_A, v_CacheECC, v_Fail >>
            /\ sightings[b].row = << SN_A, v_ECCsp, v_Pass >>

\* C3 (as stated): at the end of the run the field map of every returned
\* asset has, for every non-empty cell of every accepted row of its
\* identity, a key equal to the column name under normalisation, and every
\* data key of it is a column of one of those rows that carries a value.
C3_Original ==
  pc = "upsert" =>
    \A i \in 1..Len(results) :
      /\ \A a \in SightingsOf(results[i].serial_number) :
           \A c \in 1..Len(sightings[a].columns) :
              ValueAt(a, c) # None =>
                \E key \in DataKeys(results[i].raw_data) :
                   normalize_column_name(key) = normalize_column_name(sightings[a].columns[c])
      /\ \A key \in DataKeys(results[i].raw_data) :
           \E a \in SightingsOf(results[i].serial_number) :
              \E c \in 1..Len(sightings[a].columns) :
                 sightings[a].columns[c] = key /\ ValueAt(a, c) # None

\* C3 (amended): the same, except that a customer value the deny-list
\* rejects need not leave a key, and that the field map may also hold the
\* key Customer when a customer is derived from the file name.
C3_FieldsKept ==
  pc = "upsert" =>
    \A i \in 1..Len(results) :
      /\ \A a \in SightingsOf(results[i].serial_number) :
           \A c \in 1..Len(sightings[a].columns) :
              (ValueAt(a, c) # None /\ ~Rejected(a, c)) =>
                \E key \in DataKeys(results[i].raw_data) :
                   normalize_column_name(key) = normalize_column_name(sightings[a].columns[c])
      /\ \A key \in DataKeys(results[i].raw_data) :
           \/ \E a \in SightingsOf(results[i].serial_number) :
                 \E c \in 1..Len(sightings[a].columns) :
                    sightings[a].columns[c] = key /\ ValueAt(a, c) # None /\ ~Rejected(a, c)
           \/ /\ key = k_Customer
              /\ Truthy(extract_customer_from_filename(file.filename))

\* A returned asset sighted in a sheet with the columns Failtype and Status
\* and in a sheet with the columns Location and Customer; its field map has
\* the keys of both.
C3_Witness ==
  /\ pc = "upsert"
  /\ \E i \in 1..Len(results) :
       /\ \E a, b \in SightingsOf(results[i].serial_number) :
            /\ sightings[a].columns = LayFail
            /\ sightings[b].columns = LayLoc
       /\ {c_Failtype, c_Status, c_Location, c_Customer} \subseteq DataKeys(results[i].raw_data)

\* C4 (as stated): when an identity is sighted on exactly two rows of a
\* run that carry the same column under normalisation, with the values A and
\* B, the returned field map holds A | B, or A when they are equal, under
\* the spelling of the first row; and when a record is upserted onto an
\* asset stored by an earlier file, every field both carry holds afterwards
\* the stored value followed by " | " and the new one, or the stored value
\* when they are equal, under the stored spelling.
C4_Original ==
  [][pc = "upsert" =>
       /\ \A i \in 1..Len(results) : \A a, b \in SightingsOf(results[i].serial_number) :
            (a < b /\ Cardinality(SightingsOf(results[i].serial_number)) = 2) =>
              \A ca \in 1..Len(sightings[a].columns) : \A cb \in 1..Len(sightings[b].columns) :
                 ( /\ normalize_column_name(sightings[a].columns[ca])
                        = normalize_column_name(sightings[b].columns[cb])
                   /\ ValueAt(a, ca) # None /\ ValueAt(b, cb) # None ) =>
                 /\ HasKey(results[i].raw_data, sightings[a].columns[ca])
                 /\ Get(results[i].raw_data, sightings[a].columns[ca])
                      = IF ValueAt(a, ca) = ValueAt(b, cb) THEN ValueAt(a, ca)
                        ELSE ValueAt(a, ca) \o s_SEP \o ValueAt(b, cb)
       /\ \A i \in 1..Len(assets) : \A j \in 1..Len(results) :
            assets[i].serial_number = results[j].serial_number =>
              \A key \in DataKeys(results[j].raw_data) :
                 Truthy(ExistingKey(assets[i].raw_data, key)) =>
                   LET stored == ExistingKey(assets[i].raw_data, key)
                       A == Get(assets[i].raw_data, stored)
                       B == Get(results[j].raw_data, key) IN
                   /\ HasKey(assets'[i].raw_data, stored)
                   /\ Get(assets'[i].raw_data, stored) = IF A = B THEN A ELSE A \o s_SEP \o B]_vars

\* C5 (as stated): for every edge the detection finds, the redistribution
\* removes the component from the top-level set and leaves, in a _components
\* entry of each of its parents (wherever the parent then is), an entry of
\* the component that holds every field the component had.
C5_ComponentsFolded ==
  [][pc = "redistribute" =>
       \A j \in 1..Len(parent_map(combined_data)) :
          LET edge == parent_map(combined_data)[j]
              component == combined_data[IndexOf(combined_data, edge.component_sn)] IN
          /\ edge.component_sn \notin Serials(combined_data')
          /\ \A q \in 1..Len(edge.parent_sns) :
               \E parent_data \in FieldMapsOf(combined_data', edge.parent_sns[q]) :
                  /\ HasKey(parent_data, k_components)
                  /\ \E x \in 1..Len(Get(parent_data, k_components)) :
                       /\ Get(parent_data, k_components)[x].component_sn = edge.component_sn
                       /\ \A f \in 1..Len(component.raw_data) :
                            \E g \in 1..Len(Get(parent_data, k_components)[x].component_data) :
                               Get(parent_data, k_components)[x].component_data[g]
                                 = component.raw_data[f]]_vars

\* C6: a second application of the detection and fold to the records a
\* first application leaves finds no edge and changes nothing.
C6_Idempotent ==
  [][pc = "redistribute" =>
       /\ parent_map(combined_data') = << >>
       /\ Redistribute(combined_data') = combined_data']_vars

\* A first application that folded a component: the records it leaves hold
\* a _components entry.
C6_Witness ==
  /\ pc = "clean"
  /\ \E i \in 1..Len(combined_data) : HasKey(combined_data[i].raw_data, k_components)

\* C7 (as stated): parse_excel never returns an empty list, and the upload
\* never answers that no valid records were found.
C7_ZeroEscalates ==
  /\ pc = "upsert" => results # << >>
  /\ response # "no valid records"

\* C8 (as stated): every identity cell read by the row loop that is a
\* leading digit, 11 characters of [A-Z0-9], an underscore, 3 digits, a dash
\* and digits is the identity of a returned asset or of a component nested
\* in one.
C8_PatternCellsKept ==
  pc = "upsert" =>
    \A cell \in id_cells :
       ( /\ cell # None
         /\ Len(cell) >= 18
         /\ cell[1] \in DigitSet
         /\ \A p \in 2..12 : cell[p] \in UpperAlnumSet
         /\ cell[13] = "_"
         /\ \A p \in 14..16 : cell[p] \in DigitSet
         /\ cell[17] = "-"
         /\ \A p \in 18..Len(cell) : cell[p] \in DigitSet ) =>
       \/ cell \in Serials(results)
       \/ \E i \in 1..Len(results) :
             \E entry \in NestedComponents(results[i].raw_data) : entry.component_sn = cell

\* C9: a row whose identity cell has no word scoring 40 or more and is not
\* a valid serial itself leaves the identity map as it was, answers
\* nothing, and the row loop goes on to the next row.
C9_SkippedSilently ==
  [][( /\ pc = "rows"
       /\ raised' = raised
       /\ BestScore(RawSerial(df[idx + 1][ctx.serial_column])) < MinSerialScore
       /\ ~is_valid_amd_cpu_serial(RawSerial(df[idx + 1][ctx.serial_column])) ) =>
     /\ combined_data' = combined_data
     /\ response' = response
     /\ idx' = idx + 1
     /\ pc' = IF idx + 1 < Len(df) THEN "rows" ELSE "sheets"]_vars

\* A table whose first row has the identity cell "FARM-3602": the run
\* returns the asset of the second row and none of the first.
C9_Witness ==
  /\ pc = "upsert"
  /\ Len(df) = 2
  /\ df[1][ctx.serial_column] = CELL_FARM
  /\ CELL_FARM \notin Serials(results)
  /\ \E a \in 1..Len(sightings) :
       /\ sightings[a].upload = uploads
       /\ sightings[a].row = df[2]
       /\ sightings[a].serial_number \in Serials(results)

SerialTexts ==
  { SN_B, <<"9","A","B","1","2","3","4","5","6","7","8","9","_","1","0","0","-","0","0","0","0","0","0","0","0","0","0","0","1">>, <<"0","A","0","0","0","0","0","0","0","0","0","0","_","0","0","0","-","0","0","0","0","0","0","0","0","0","0","0","0">>,
    SN_A, CELL_FARM }
\* What follows the serial in a cell.
NoiseTexts ==
  { << >>, <<"S","L","T"," ","f","a","i","l">>, <<"c","o","v","e","r","a","g","e","-","p","a","t","c","h",","," ","r","e","v",";","B">>, <<"s","e","e","\t","F","A","I","L","_","L","3","-","c","a","c","h","e","-","e","c","c">>,
    <<"9","Z","Z","1","2","3","4","5","6","7","_","1","0","0","-","0","0","0","0","0","0","0","0","2">> }

PendingCall(op, args) == [op |-> op, args |-> args, result |-> << >>, done |-> FALSE]

ExtractCalls ==
  { PendingCall("extract_best_serial_from_text", [text |-> s \o <<" ">> \o n]) :
      s \in SerialTexts, n \in NoiseTexts }

\* The requests of classify_columns: the columns of two layouts.
ColumnSets ==
  { {c_CPU_SN, c_Failtype, c_Status}, {c_CPU_SN, c_Location, c_Customer} }
\* The JSON values a reply gives as a column's role: two categories (one in
\* lower case), a word that is no category, null.
RoleValues ==
  { CategoryText.STATUS, Lower(CategoryText.DESCRIPTION), <<"B","O","G","U","S","_","R","O","L","E">>, None }
\* The replies to a request: no JSON at all, or a JSON object with roles for
\* some of the columns.
Replies(columns) ==
  { [json |-> FALSE] } \cup
  { [json |-> TRUE, classifications |-> roles, serial_number_column |-> c_CPU_SN,
     error_extraction_column |-> e] :
      roles \in UNION {[named -> RoleValues] : named \in SUBSET columns \ {{}}},
      e \in {None, c_CPU_SN} }

ClassifyCalls ==
  { PendingCall("classify_columns", [columns |-> columns, nabu_client |-> client, chat |-> chat]) :
      columns \in ColumnSets, client \in BOOLEAN,
      chat \in {ChatRaises} \cup {ChatReturns(r) : r \in UNION {Replies(cs) : cs \in ColumnSets}} }

\* Requests of the fallback: up to three different columns, in every order.
ColumnPool ==
  { c_CPU_SN, c_Failtype, c_Status, c_Location, c_location2, c_Customer, c_Component }
FallbackCalls ==
  { PendingCall("_fallback_classification", [columns |-> columns]) :
      columns \in {q \in SeqsUpTo(ColumnPool, 3) :
                     q # << >> /\ \A i, j \in 1..Len(q) : i # j => q[i] # q[j]} }

\* Sheets of the second pass: the name, the number of sheets of the file,
\* the number of rows read.
SheetCalls ==
  { PendingCall("sheet", [sheet_name |-> n, sheet_count |-> k, row_count |-> r]) :
      n \in {SheetNames[1], <<"L","o","o","k","u","p">>, <<" ","D","a","t","e","C","o","d","e"," ","m","a","p">>}, k \in 1..3,
      r \in {0, 1, MAX_SHEET_ROWS, MAX_SHEET_ROWS + 1} }

\* Slide decks with one table on their first slide.
DeckNames ==
  { <<"f","a",".","p","p","t","x">>, <<"T","e","n","c","e","n","t","_","F","A",".","p","p","t","x">> }
DeckCalls ==
  { PendingCall("parse_pptx", [original_filename |-> f, columns |-> columns, rows |-> rows]) :
      f \in DeckNames,
      columns \in Layouts,
      rows \in UNION {SeqsUpTo(RowsOf(lay), 2) : lay \in Layouts} }

\* Files for the two passes over the sheets: a first sheet of up to five
\* equal rows, alone or followed by a second sheet of one row.
RECURSIVE Repeat(_, _)
Repeat(x, n) == IF n = 0 THEN << >> ELSE Append(Repeat(x, n - 1), x)
FirstSheets ==
  { [name |-> SheetNames[1], columns |-> LayFail, rows |-> Repeat(row, n)] :
      row \in RowsOf(LayFail), n \in {0, 1, MaxSampleRows - 1, MaxSampleRows} }
SecondSheets ==
  UNION { { [name |-> n, columns |-> lay, rows |-> << row >>] :
              n \in {SheetNames[2], <<"L","o","o","k","u","p">>}, row \in RowsOf(lay) } :
          lay \in {LayLoc, LayComp} }
PassCalls ==
  { PendingCall("passes", [sheets |-> << s >>]) : s \in FirstSheets } \cup
  { PendingCall("passes", [sheets |-> << s, t >>]) : s \in FirstSheets, t \in SecondSheets }

\* Column names for the rule chain of the fallback: names with the markers
\* of one rule, of two rules, and of none.
ColumnNames ==
  { c_CPU_SN, c_Failtype, c_Status, c_Location, c_location2, c_Customer, c_Component,
    <<" ","F","a","i","l"," ","D","a","t","e"," ">>, <<"T","e","s","t"," ","T","i","m","e">>, <<"S","t","a","g","e"," ","C","u","s","t","o","m","e","r">>, <<"A","F","H","C"," ","E","r","r","o","r">>, <<"E","r","r","o","r"," ","L","o","g">>,
    <<"F","a","i","l","u","r","e"," ","D","u","m","p"," ","F","i","l","e">>, <<"F","a","i","l","e","d"," ","C","o","r","e">>, <<"D","I","M","M"," ","F","a","u","l","t">>, <<"F","a","i","l","u","r","e"," ","S","t","a","t","u","s">>,
    <<"I","s","s","u","e"," ","D","e","s","c","r","i","p","t","i","o","n">>, <<"R","M","A"," ","S","t","a","t","u","s">>, <<"C","l","i","e","n","t"," ","S","t","a","t","e">>, <<"C","u","s","t","o","m","e","r"," ","P","l","a","t","f","o","r","m">>,
    <<"E","n","d"," ","C","u","s","t","o","m","e","r">>, <<"C","P","U"," ","C","o","n","f","i","g">>, <<"B","I","O","S"," ","L","o","g">>, <<"D","e","b","u","g"," ","L","o","g">>, <<"S","h","a","r","e","p","o","i","n","t"," ","L","i","n","k">>,
    <<"D","e","b","u","g"," ","N","o","t","e","s">>, <<"S","u","m","m","a","r","y">>, <<"O","w","n","e","r">>, <<"R","a","n","k">> }
SingleColumnCalls ==
  { PendingCall("_classify_single_column", [column |-> c]) : c \in ColumnNames }

\* Rows of tables with test tier columns, for the first sighting of an
\* identity: each cell drawn from the values of its column's role.
c_L1 ==
  <<"L","1">>
c_ATE ==
  <<"A","T","E">>
c_FailureDate ==
  <<"F","a","i","l","u","r","e"," ","D","a","t","e">>
TierLayouts ==
  { << c_CPU_SN, c_L1, c_ATE >>, << c_CPU_SN, c_L1, c_Status >>,
    << c_CPU_SN, c_FailureDate, c_L1 >>, << c_CPU_SN, c_Failtype, c_L1 >> }
CellsOf(col) ==
  IF col = c_CPU_SN THEN { SN_A, SN_A \o <<" ","S","L","T"," ","f","a","i","l">>, CELL_FARM }
  ELSE IF col \in {c_L1, c_ATE} THEN { None, <<"P","A","S","S">>, v_Fail, <<"N","/","A">>, <<"N","F","F"," ","-"," ","r","e","t","e","s","t">> }
  ELSE IF col = c_Status THEN { None, v_Fail }
  ELSE IF col = c_FailureDate THEN { None, <<"2","0","2","4","-","0","1","-","0","5">> }
  ELSE { None, v_CacheECC, <<"n","/","a">>, <<"s","e","e"," ","h","t","t","p",":","/","/","f","a","/","a",".","l","o","g">> }
RowCalls ==
  UNION { { PendingCall("row", [columns |-> lay, row |-> << a, b, c >>,
                                error_extraction_column |-> e]) :
              a \in CellsOf(lay[1]), b \in CellsOf(lay[2]), c \in CellsOf(lay[3]),
              e \in {None, c_CPU_SN} } : lay \in TierLayouts }

\* Files with a customer column, called Customer or Client, in their only
\* sheet or in their second sheet, under a name with and without a customer.
c_Client ==
  <<"C","l","i","e","n","t">>
LayClient ==
  << c_CPU_SN, c_Location, c_Client >>
CustomerRows ==
  { << SN_A, v_Austin, <<"A","l","i","b","a","b","a">> >>, << SN_A, v_Suzhou, v_RMA >>, << SN_A, v_Austin, None >> }
CustomerSheets(n) ==
  { [name |-> SheetNames[n], columns |-> lay, rows |-> rows] :
      lay \in {LayLoc, LayClient}, rows \in SeqsUpTo(CustomerRows, 2) \ {<< >>} }
ParseCalls ==
  { PendingCall("parse_excel", [file |-> [filename |-> f, sheets |-> << s >>]]) :
      f \in FileNames, s \in CustomerSheets(1) } \cup
  { PendingCall("parse_excel",
                [file |-> [filename |-> f,
                           sheets |-> << [name |-> SheetNames[1], columns |-> LayFail,
                                          rows |-> << << SN_A, v_CacheECC, v_Fail >> >>], s >>]]) :
      f \in FileNames, s \in CustomerSheets(2) }

\* Tables handed to the identity column detector: a table of reserved names,
\* a table with one keyword name, a table of names the detector does not know.
c_2d_barcode ==
  <<"2","d","_","b","a","r","c","o","d","e">>
c_SN ==
  <<"S","N">>
v_FARM ==
  <<"F","A","R","M","-","3","6","0","2">>
DetectLayouts ==
  { << c_2d_barcode, c_CPU_SN >>, << c_Location, c_SN >>, << c_Failtype, c_Status >> }
DetectCells ==
  { SN_A, v_FARM, v_Austin, None }
MaxDetectRows == 2
DetectCalls ==
  { PendingCall("detect_serial_column", [columns |-> lay, rows |-> rows]) :
      lay \in DetectLayouts,
      rows \in SeqsUpTo({ << a, b >> : a \in DetectCells, b \in DetectCells }, MaxDetectRows) }

\* Workbooks whose first sheet has no identity column.
LayNoSerial ==
  << c_Failtype, c_Status, c_Location >>
SkippedSheetCalls ==
  { PendingCall("parse_excel",
                [file |-> [filename |-> <<"f","a",".","x","l","s","x">>,
                           sheets |-> << [name |-> SheetNames[1], columns |-> LayNoSerial,
                                          rows |-> << << v_CacheECC, v_Fail, v_Austin >> >>] >> \o rest]]) :
      rest \in { << >> } \cup { << s >> : s \in CustomerSheets(2) } }

\* Workbooks of one sheet that sights one identity three times.
SightingRows ==
  { << SN_A, v_Austin, v_Tencent >>, << SN_A, v_Suzhou, v_RMA >> }
ThreeSightingCalls ==
  { PendingCall("parse_excel",
                [file |-> [filename |-> <<"f","a",".","x","l","s","x">>,
                           sheets |-> << [name |-> SheetNames[1], columns |-> LayLoc,
                                          rows |-> << a, b, c >>] >>]]) :
      a \in SightingRows, b \in SightingRows, c \in SightingRows }

Calls ==
  ExtractCalls \cup ClassifyCalls \cup FallbackCalls \cup SheetCalls \cup DeckCalls \cup PassCalls
  \cup SingleColumnCalls \cup RowCalls \cup ParseCalls \cup DetectCalls \cup SkippedSheetCalls
  \cup ThreeSightingCalls

\* No upload is in progress and nothing is stored.
NoUpload ==
  /\ api_token = FALSE
  /\ assets = << >>
  /\ pc = "idle"
  /\ file = NoFile
  /\ classification_result = NoClassification
  /\ sheet_i = 0
  /\ df = << >>
  /\ idx = 0
  /\ ctx = NoContext
  /\ combined_data = << >>
  /\ results = << >>
  /\ response = "none"
  /\ uploads = 0
  /\ rows_read = 0
  /\ sheets_opened = 0
  /\ sightings = << >>
  /\ id_cells = {}
  /\ oracle_calls = 0
  /\ raised = {}

CallInit ==
  /\ NoUpload
  /\ runs = << >>
  /\ call \in Calls

run_vars == << api_token, assets, pc, file, classification_result, sheet_i, df, idx, ctx,
               combined_data, results, response, uploads, rows_read, sheets_opened, sightings,
               id_cells, oracle_calls, raised >>

Returns(value) ==
  /\ ~call.done
  /\ call' = [call EXCEPT !.result = value, !.done = TRUE]
  /\ UNCHANGED << run_vars, runs >>

ExtractBestSerial ==
  /\ call.op = "extract_best_serial_from_text"
  /\ Returns(extract_best_serial_from_text(call.args.text))

ClassifyColumns ==
  /\ call.op = "classify_columns"
  /\ Returns(classify_columns(call.args.columns, call.args.nabu_client, call.args.chat))

ReadSheet ==
  /\ call.op = "sheet"
  /\ Returns(SheetVerdict(call.args.sheet_name, call.args.sheet_count, call.args.row_count))

\* parse_pptx (pptx_parser.py, lines 49-125) for a deck whose first slide
\* holds one table.
ParsePptx ==
  /\ call.op = "parse_pptx"
  /\ Returns(_dataframe_to_assets(call.args.columns, call.args.rows, 1,
                                  call.args.original_filename,
                                  extract_customer_from_filename(call.args.original_filename)))

FallbackClassification ==
  /\ call.op = "_fallback_classification"
  /\ Returns(_fallback_classification(call.args.columns))

\* The two passes of parse_excel over the sheets of a file, without an
\* oracle client: the columns sent to classify_columns (lines 573-641) and
\* the columns of the sheets whose rows are then processed (lines 696-856).
Passes ==
  /\ call.op = "passes"
  /\ LET Sent(columns) ==
           [submitted |-> columns,
            classification_result |-> FallbackResult(columns),
            processed |-> ProcessedSheets(call.args.sheets, None)] IN
     Returns(Sent(all_columns_across_sheets(call.args.sheets, 1, {}, 0)))

ClassifySingleColumn ==
  /\ call.op = "_classify_single_column"
  /\ Returns(_classify_single_column(call.args.column))

\* The first row of the only sheet of a file (parser.py, lines 823-1076):
\* the columns have the roles of the fallback, the identity column is the
\* one the classification names.  The call returns combined_data.
ProcessFirstRow ==
  /\ call.op = "row"
  /\ Returns(ProcessRowOf(<< >>,
                          SheetContext(<<"f","a",".","x","l","s","x">>, SheetNames[1], call.args.columns,
                                       << call.args.row >>,
                                       FallbackResult({call.args.columns[c] :
                                                         c \in 1..Len(call.args.columns)}).classifications,
                                       c_CPU_SN, call.args.error_extraction_column),
                          0, call.args.row))

\* parse_excel (parser.py, lines 511-1240) on a file, without a client of
\* the remote service: the call returns its list, or fails.
ParseExcel ==
  /\ call.op = "parse_excel"
  /\ LET Outcome(l) == [results |-> l.results, failed |-> l.failed] IN
     Returns(Outcome(Finished(StartRun(call.args.file))))

DetectSerialColumn ==
  /\ call.op = "detect_serial_column"
  /\ Returns(detect_serial_column(call.args.columns, call.args.rows))

CallNext ==
  \/ ExtractBestSerial
  \/ FallbackClassification
  \/ ParsePptx
  \/ ReadSheet
  \/ ClassifyColumns
  \/ Passes
  \/ ClassifySingleColumn
  \/ ProcessFirstRow
  \/ ParseExcel
  \/ DetectSerialColumn

CallSpec == CallInit /\ [][CallNext]_vars

\* The call of op has returned.
Returned(op) == call.op = op /\ call.done

(***************************************************************************)
(* C11: for every identity S matching the structural pattern and every     *)
(* noise text whose words all score below 40 (the empty noise included),   *)
(* extract_best_serial_from_text applied to S, a space and the noise       *)
(* returns exactly S.                                                      *)
(***************************************************************************)
QuietNoise(n) ==
  \A k \in 1..Len(SerialWords(n)) : WordScore(SerialWords(n)[k]) < MinSerialScore

C11_SerialBeforeNoise ==
  Returned("extract_best_serial_from_text") =>
    \A s \in SerialTexts : \A n \in NoiseTexts :
      /\ AMD_CPU_SERIAL_PATTERN(s)
      /\ QuietNoise(n)
      /\ call.args.text = s \o <<" ">> \o n
      => call.result = s

\* The serial 2ABS784R5004_100-000000001359 followed by three noise words
\* has been extracted.
C11_Witness ==
  /\ Returned("extract_best_serial_from_text")
  /\ call.args.text = SN_B \o <<" ">> \o <<"c","o","v","e","r","a","g","e","-","p","a","t","c","h",","," ","r","e","v",";","B">>
  /\ AMD_CPU_SERIAL_PATTERN(SN_B)
  /\ QuietNoise(<<"c","o","v","e","r","a","g","e","-","p","a","t","c","h",","," ","r","e","v",";","B">>)
  /\ SerialWords(<<"c","o","v","e","r","a","g","e","-","p","a","t","c","h",","," ","r","e","v",";","B">>) # << >>
  /\ call.result = SN_B

(***************************************************************************)
(* Observations of a call of classify_columns.                             *)
(***************************************************************************)
\* The remote classifier has answered with a JSON object.
Answered ==
  /\ Returned("classify_columns")
  /\ call.args.columns # {}
  /\ call.args.nabu_client
  /\ ~call.args.chat.raises
  /\ call.args.chat.response.json
\* The JSON object of the answer, and the role it gives a column.
Reply == call.args.chat.response
Named(col) == col \in DOMAIN Reply.classifications
\* The role record building uses for the column (parser.py line 832).
RoleUsed(col) == RoleOf(call.result.classifications, col)
ValidRole(value) == IsStr(value) /\ \E r \in CATEGORIES : CategoryText[r] = Upper(value)

(***************************************************************************)
(* C12: for every column sent to the remote classifier, if the answer      *)
(* gives the column no role or a role outside the categories, the role     *)
(* used for the column during record building is the role of the local     *)
(* fallback.                                                               *)
(***************************************************************************)
C12_FallbackPerColumn ==
  Answered =>
    \A col \in call.args.columns :
      (~Named(col) \/ ~ValidRole(Reply.classifications[col]))
      => RoleUsed(col) = _classify_single_column(col)

(***************************************************************************)
(* C13: without a client, when the call raises, or when the response       *)
(* cannot be parsed, classify_columns returns the fallback role of every   *)
(* requested column.                                                       *)
(***************************************************************************)
OracleFailed ==
  /\ Returned("classify_columns")
  /\ \/ ~call.args.nabu_client
     \/ call.args.chat.raises
     \/ ~call.args.chat.response.json

C13_FallbackOnFailure ==
  OracleFailed =>
    /\ DOMAIN call.result.classifications = call.args.columns
    /\ \A col \in call.args.columns :
         call.result.classifications[col] = _classify_single_column(col)

\* With a client, the call has raised for the request {CPU_SN, Failtype,
\* Status}, and Status has the role STATUS.
C13_Witness ==
  /\ OracleFailed
  /\ call.args.nabu_client
  /\ call.args.chat.raises
  /\ call.args.columns = {c_CPU_SN, c_Failtype, c_Status}
  /\ RoleUsed(c_Status) = "STATUS"

(***************************************************************************)
(* C14: when the answer is malformed for some columns only (a role that is *)
(* no string), the valid roles and the identity and error-extraction       *)
(* columns of the answer are kept, and the fallback is applied to the      *)
(* affected columns only.                                                  *)
(***************************************************************************)
C14_PartialAnswerKept ==
  /\ Answered
  /\ \E col \in DOMAIN Reply.classifications : ~IsStr(Reply.classifications[col])
  /\ \E col \in DOMAIN Reply.classifications : ValidRole(Reply.classifications[col])
  => /\ call.result.serial_number_column = Reply.serial_number_column
     /\ call.result.error_extraction_column = Reply.error_extraction_column
     /\ \A col \in DOMAIN Reply.classifications :
          IF ValidRole(Reply.classifications[col])
          THEN CategoryText[RoleUsed(col)] = Upper(Reply.classifications[col])
          ELSE RoleUsed(col) = _classify_single_column(col)

(***************************************************************************)
(* C16: a sheet is skipped for its name or for its number of rows only in  *)
(* a file of more than one sheet; the sheet of a single-sheet file is      *)
(* processed as data.                                                      *)
(***************************************************************************)
C16_SkipOnlyAmongSeveral ==
  /\ Returned("sheet")
  /\ call.result \in {"skip pattern", "too many rows"}
  => call.args.sheet_count > 1

(***************************************************************************)
(* C17: every asset in the output of a run, of a spreadsheet or of a slide *)
(* deck, has in its field map the source filename, the source sheet or     *)
(* slide, the source row, the identity column or the extraction method,    *)
(* the joined list of contributing sheets, their count, and the            *)
(* classification map.  Checked on the assets parse_pptx returns.          *)
(***************************************************************************)
HasProvenance(raw_data) ==
  /\ HasKey(raw_data, k_source_filename)
  /\ HasKey(raw_data, k_source_sheet) \/ HasKey(raw_data, k_source_slide)
  /\ HasKey(raw_data, k_source_row)
  /\ HasKey(raw_data, k_serial_column) \/ HasKey(raw_data, k_extraction_method)
  /\ HasKey(raw_data, k_sheets_combined)
  /\ HasKey(raw_data, k_total_sheets)
  /\ HasKey(raw_data, k_column_classification)

C17_ProvenanceInEveryAsset ==
  Returned("parse_pptx") =>
    \A i \in 1..Len(call.result) : HasProvenance(call.result[i].raw_data)

(***************************************************************************)
(* C20: the fallback classifier is a function of the column name alone:    *)
(* the role of a column is the same whatever the other columns of the      *)
(* request and their order, namely the role the column gets in a request   *)
(* of its own.                                                             *)
(***************************************************************************)
C20_RoleOfNameAlone ==
  Returned("_fallback_classification") =>
    /\ DOMAIN call.result = {call.args.columns[c] : c \in 1..Len(call.args.columns)}
    /\ \A c \in 1..Len(call.args.columns) :
         call.result[call.args.columns[c]]
           = _fallback_classification(<< call.args.columns[c] >>)[call.args.columns[c]]

\* Status has the role STATUS as the last of three columns.
C20_Witness ==
  /\ Returned("_fallback_classification")
  /\ call.args.columns = << c_Customer, c_CPU_SN, c_Status >>
  /\ call.result[c_Status] = "STATUS"
  /\ call.result[c_Customer] = "CUSTOMER"

(***************************************************************************)
(* C15: during the run of one file the remote service is called at most    *)
(* once, whatever the sheets, columns, rows and assets of the file.        *)
(***************************************************************************)
C15_OracleOnce ==
  oracle_calls <= 1

RunCount == 2

\* The files of the calls: one sheet with one row, and two files of two
\* sheets.
RunFiles ==
  UNION { { [filename |-> <<"f","a",".","x","l","s","x">>,
             sheets |-> << [name |-> SheetNames[1], columns |-> lay, rows |-> << row >>] >>] :
              row \in RowsOf(lay) } : lay \in Layouts }
  \cup
  { [filename |-> <<"T","e","n","c","e","n","t","_","F","A",".","x","l","s","x">>,
     sheets |-> << [name |-> SheetNames[1], columns |-> LayFail,
                    rows |-> << << SN_A, v_CacheECC, v_Fail >>, << SN_A, v_ECCsp, v_Pass >> >>],
                   [name |-> SheetNames[2], columns |-> LayComp,
                    rows |-> << << SN_A, v_Suzhou, SN_B >> >>] >>],
    [filename |-> <<"f","a",".","x","l","s","x">>,
     sheets |-> << [name |-> SheetNames[1], columns |-> LayComp,
                    rows |-> << << SN_B, None, SN_C >>, << SN_C, None, None >> >>],
                   [name |-> SheetNames[2], columns |-> LayLoc,
                    rows |-> << << SN_B, v_Austin, v_Tencent >> >>] >>] }

\* An identity map that all calls share: the map of the first call.
MapOf_Shared(r) ==
  runs[1].combined_data
\* combined_data of line 692 is a local of the call.
MapOf(r) ==
  runs[r].combined_data

RunsInit ==
  /\ NoUpload
  /\ call = NoCall
  /\ runs \in [1..RunCount -> {StartRun(f) : f \in RunFiles}]

RunStep(r) ==
  /\ runs[r].pc # "done"
  /\ runs' = [runs EXCEPT ![r] = NextLocals(runs[r], MapOf(r))]
  /\ UNCHANGED << run_vars, call >>

RunsNext == \E r \in 1..RunCount : RunStep(r)

RunsSpec == RunsInit /\ [][RunsNext]_vars

\* The identities the cells of a file hold.
IdentitiesOf(f) ==
  UNION { UNION { { SerialOfCell(f.sheets[i].rows[j][c]) : c \in 1..Len(f.sheets[i].columns) } :
                    j \in 1..Len(f.sheets[i].rows) } :
            i \in 1..Len(f.sheets) }

RECURSIVE PartsAcc(_, _, _)
PartsAcc(value, sep, cur) ==
  IF value = << >> THEN << cur >>
  ELSE IF StartsWith(sep, value)
  THEN << cur >> \o PartsAcc(SubSeq(value, Len(sep) + 1, Len(value)), sep, << >>)
  ELSE PartsAcc(Tail(value), sep, Append(cur, Head(value)))
Parts(value, sep) == PartsAcc(value, sep, << >>)


(***************************************************************************)
(* C21: the set of column names sent in the file's classification request  *)
(* equals the union of the column names of the sheets whose rows the       *)
(* second pass processes, so that every column read there has a role given *)
(* by the classification.                                                  *)
(***************************************************************************)
ColumnsOfSheets(sheets, which) ==
  UNION {{sheets[i].columns[c] : c \in 1..Len(sheets[i].columns)} : i \in which}

C21_RequestCoversProcessed ==
  Returned("passes") =>
    /\ call.result.submitted = ColumnsOfSheets(call.args.sheets, call.result.processed)
    /\ \A col \in ColumnsOfSheets(call.args.sheets, call.result.processed) :
          col \in DOMAIN call.result.classification_result.classifications

(***************************************************************************)
(* C22: the fallback gives every column name exactly one category, the one *)
(* of the first rule, in the order identity, date, test tier, error,       *)
(* status, customer, platform, diagnostic, description, whose markers the  *)
(* name holds, and IGNORE when no rule matches.  A name with an error      *)
(* marker gets DESCRIPTION when it also holds a location marker, else      *)
(* DIAGNOSTIC when it also holds a file marker, else ERROR_TYPE.           *)
(***************************************************************************)
RuleChain ==
  << [markers |-> kw_serial, role |-> "SERIAL_NUMBER"],
     [markers |-> kw_date, role |-> "DATE"],
     [markers |-> kw_tier, role |-> "TEST_TIER"],
     [markers |-> kw_error, role |-> "ERROR_TYPE"],
     [markers |-> kw_status, role |-> "STATUS"],
     [markers |-> kw_customer, role |-> "CUSTOMER"],
     [markers |-> kw_platform, role |-> "PLATFORM"],
     [markers |-> kw_diagnostic, role |-> "DIAGNOSTIC"],
     [markers |-> kw_description, role |-> "DESCRIPTION"] >>
Matches(name, k) == ContainsAny(RuleChain[k].markers, Strip(Lower(name)))
\* The first rule a name matches; 0 when it matches none.
FirstRule(name) ==
  IF \E k \in 1..Len(RuleChain) : Matches(name, k)
  THEN CHOOSE k \in 1..Len(RuleChain) :
         Matches(name, k) /\ \A j \in 1..(k - 1) : ~Matches(name, j)
  ELSE 0
HoldsAny(name, markers) == ContainsAny(markers, Strip(Lower(name)))
\* The role of the rule chain; file_veto tells whether a file marker turns
\* an error name into a DIAGNOSTIC one.
ChainRole(name, file_veto) ==
  IF FirstRule(name) = 0 THEN "IGNORE"
  ELSE IF RuleChain[FirstRule(name)].role # "ERROR_TYPE" THEN RuleChain[FirstRule(name)].role
  ELSE IF HoldsAny(name, kw_location) THEN "DESCRIPTION"
  ELSE IF file_veto /\ HoldsAny(name, kw_error_file) THEN "DIAGNOSTIC"
  ELSE "ERROR_TYPE"

C22_FirstMatchingRule ==
  Returned("_classify_single_column") =>
    /\ call.result \in CATEGORIES
    /\ call.result = ChainRole(call.args.column, TRUE)

\* C22 as stated: an error name without a location marker gets ERROR_TYPE.
C22_ErrorUnlessLocation ==
  Returned("_classify_single_column") =>
    /\ call.result \in CATEGORIES
    /\ call.result = ChainRole(call.args.column, FALSE)

C22_Witness ==
  /\ Returned("_classify_single_column")
  /\ call.args.column = <<"F","a","i","l","u","r","e"," ","S","t","a","t","u","s">>
  /\ call.result = "ERROR_TYPE"

(***************************************************************************)
(* First sightings: the record a row gives for an identity that            *)
(* combined_data does not hold yet.                                        *)
(***************************************************************************)
FirstSighting == Returned("row") /\ call.result # << >>
\* The columns of the call with a role, in column order.
RoleColumns(role) ==
  SelectSeq([c \in 1..Len(call.args.columns) |-> c],
            LAMBDA c : _classify_single_column(call.args.columns[c]) = role)
\* The text left in the identity cell when the identity column is the
\* error-extraction column, None otherwise.
IdentityCellText ==
  IF call.args.error_extraction_column = c_CPU_SN
  THEN LET Rest(raw_serial, serial_number) ==
             RStripSet(LStripSet(Strip(RemoveAll(raw_serial, serial_number)), PunctSet), PunctSet) IN
       Rest(RawSerial(call.args.row[1]), SerialOfCell(call.args.row[1]))
  ELSE << >>
FailedAt == <<"F","a","i","l","e","d"," ","a","t",":"," ">>

(***************************************************************************)
(* C23: for a first sighting errorType is the text extracted from the      *)
(* identity cell, else the first usable value of a column classified       *)
(* ERROR_TYPE, else "Failed at: " and the name of the first TEST_TIER      *)
(* column with a failing value, else empty; no value of a column with      *)
(* another role becomes errorType.                                         *)
(***************************************************************************)
C23_ErrorTypeOrder ==
  FirstSighting =>
    LET Chosen(errs, tiers) ==
          IF Len(IdentityCellText) > 3 THEN IdentityCellText
          ELSE IF errs # << >> THEN call.args.row[errs[1]]
          ELSE IF tiers # << >> THEN FailedAt \o call.args.columns[tiers[1]]
          ELSE None IN
    call.result[1].error_type =
      Chosen(SelectSeq(RoleColumns("ERROR_TYPE"), LAMBDA c : UsableError(call.args.row[c])),
             SelectSeq(RoleColumns("TEST_TIER"), LAMBDA c : TierFailed(call.args.row[c])))

(***************************************************************************)
(* C24: for a first sighting status is the row's value of the STATUS       *)
(* column when that value is not empty; otherwise, also when the table has *)
(* a STATUS column and the row's cell is empty, it is inferred from the    *)
(* row's tier values: "Failed" if one is a failure, else "Passed" if one   *)
(* is a pass, else "Not Run".                                              *)
(***************************************************************************)
C24_StatusOrder ==
  FirstSighting =>
    LET Explicit(stats) == IF stats = << >> THEN None ELSE call.args.row[stats[1]] IN
    call.result[1].status =
      IF Truthy(Explicit(RoleColumns("STATUS"))) THEN Explicit(RoleColumns("STATUS"))
      ELSE TierStatus([tier_columns |-> RoleColumns("TEST_TIER")], call.args.row)

(***************************************************************************)
(* C30: for a first sighting in a table with TEST_TIER columns, without a  *)
(* STATUS column and without an error value in the row, status is inferred *)
(* as "Failed" exactly when errorType is made "Failed at: <tier>".         *)
(***************************************************************************)
C30_TierInferencesAgree ==
  ( /\ FirstSighting
    /\ RoleColumns("TEST_TIER") # << >>
    /\ RoleColumns("STATUS") = << >>
    /\ Len(IdentityCellText) <= 3
    /\ \A c \in 2..Len(call.args.columns) :
          _classify_single_column(call.args.columns[c]) # "TEST_TIER" => call.args.row[c] = None )
  => ( call.result[1].status = <<"F","a","i","l","e","d">>
       <=> ( Truthy(call.result[1].error_type)
             /\ StartsWith(FailedAt, call.result[1].error_type) ) )

(***************************************************************************)
(* C26: the customer of the file name is in the field map of a returned    *)
(* asset only if the sheets gave the asset no customer field; an asset     *)
(* with a customer value from a sheet keeps it, and no returned asset      *)
(* holds the temporary entry of the file name's customer.                  *)
(***************************************************************************)
\* The values the rows of the file give the identity in columns classified
\* CUSTOMER, the rejected ones left out.
SheetCustomers(f, serial_number) ==
  UNION { UNION { { f.sheets[i].rows[j][c] :
                      c \in {x \in 1..Len(f.sheets[i].columns) :
                               /\ SerialOfCell(f.sheets[i].rows[j][1]) = serial_number
                               /\ _classify_single_column(f.sheets[i].columns[x]) = "CUSTOMER"
                               /\ f.sheets[i].rows[j][x] # None
                               /\ is_valid_customer_value(f.sheets[i].rows[j][x])} } :
                    j \in 1..Len(f.sheets[i].rows) } :
            i \in 1..Len(f.sheets) }
FileColumns(f) ==
  UNION {{f.sheets[i].columns[c] : c \in 1..Len(f.sheets[i].columns)} : i \in 1..Len(f.sheets)}

C26_FilenameCustomerLast ==
  Returned("parse_excel") =>
    \A i \in 1..Len(call.result.results) :
      LET Checked(raw_data, from_sheets, from_filename) ==
            /\ ~HasKey(raw_data, k_customer_from_filename)
            /\ from_sheets # {} =>
                 /\ \E j \in 1..Len(raw_data) :
                       /\ ~IsMetaKey(raw_data[j].k)
                       /\ \E p \in 1..Len(Parts(raw_data[j].v, s_SEP)) :
                             Parts(raw_data[j].v, s_SEP)[p] \in from_sheets
                 /\ HasKey(raw_data, k_Customer) => k_Customer \in FileColumns(call.args.file)
            /\ (from_sheets = {} /\ Truthy(from_filename)) =>
                 /\ HasKey(raw_data, k_Customer)
                 /\ Get(raw_data, k_Customer) = from_filename IN
      Checked(call.result.results[i].raw_data,
              SheetCustomers(call.args.file, call.result.results[i].serial_number),
              extract_customer_from_filename(call.args.file.filename))

(***************************************************************************)
(* C28: the identity column detector.                                      *)
(***************************************************************************)
\* The columns with a reserved name whose data score is at least 0.3.
HighPriority(columns, rows) ==
  {c \in 1..Len(columns) :
     /\ \E k \in 1..Len(priority_keywords) : priority_keywords[k] = Strip(Lower(columns[c]))
     /\ RatLeq(MinColumnScore, score_column_data(rows, c))}
\* The columns no other column beats on 0.4 * header + 0.6 * data.
Maximal(columns, rows) ==
  {c \in 1..Len(columns) :
     \A o \in 1..Len(columns) :
       RatLeq(combined_score(columns, rows, o), combined_score(columns, rows, c))}
\* What the three rules of the detector give for a table, 0 for no column.
RuleOutcomes(columns, rows) ==
  IF HighPriority(columns, rows) # {}
  THEN {CHOOSE c \in HighPriority(columns, rows) : \A o \in HighPriority(columns, rows) : c <= o}
  ELSE IF \E c \in Maximal(columns, rows) : RatLeq(MinColumnScore, combined_score(columns, rows, c))
  THEN Maximal(columns, rows)
  ELSE {0}
\* The sheets of a file in which the detector finds no identity column.
NoIdentitySheets(f) ==
  {i \in 1..Len(f.sheets) :
     /\ f.sheets[i].rows # << >>
     /\ detect_serial_column(f.sheets[i].columns,
                             FillCustomerColumns(f.sheets[i].columns, f.sheets[i].rows, 1)) = 0}
SheetsOf(result) ==
  {Parts(Get(result.raw_data, k_sheets_combined), <<","," ">>)[p] :
     p \in 1..Len(Parts(Get(result.raw_data, k_sheets_combined), <<","," ">>))}

C25_NoRejectedCustomer ==
  pc = "upsert" =>
    \A i \in 1..Len(results) :
      /\ \A j \in 1..Len(results[i].raw_data) :
           ( /\ ~IsMetaKey(results[i].raw_data[j].k)
             /\ RoleOf(classification_result.classifications, results[i].raw_data[j].k) = "CUSTOMER" )
           => \A p \in 1..Len(Parts(results[i].raw_data[j].v, s_SEP)) :
                 is_valid_customer_value(Parts(results[i].raw_data[j].v, s_SEP)[p])
      /\ \A a \in SightingsOf(results[i].serial_number) :
           (\E c \in 1..Len(sightings[a].columns) : ValueAt(a, c) # None /\ Rejected(a, c)) =>
             \A c \in 1..Len(sightings[a].columns) :
                (ValueAt(a, c) # None /\ ~Rejected(a, c)) =>
                  \E key \in DataKeys(results[i].raw_data) :
                     normalize_column_name(key) = normalize_column_name(sightings[a].columns[c])

(***************************************************************************)
(* C27: the count of contributing sheets of a returned asset is the number *)
(* of sheets of the file with an accepted row of its identity, and it is   *)
(* the number of entries of the joined summary of contributing sheets.     *)
(***************************************************************************)
C27_SheetCount ==
  pc = "upsert" =>
    \A i \in 1..Len(results) :
      /\ Get(results[i].raw_data, k_total_sheets)
           = Cardinality({sightings[a].sheet : a \in SightingsOf(results[i].serial_number)})
      /\ Get(results[i].raw_data, k_total_sheets)
           = Len(Parts(Get(results[i].raw_data, k_sheets_combined), <<","," ">>))

(***************************************************************************)
(* C29: the field algebra of the merge, step by step.                      *)
(***************************************************************************)
\* The stored value after a sighting of the value, as the claim gives it.
AfterSighting(stored, value) ==
  IF value = stored THEN stored ELSE stored \o s_SEP \o value

\* A row of the run sights an identity that combined_data already holds:
\* every field of the record that the row carries follows AfterSighting.
RowFollowsAlgebra ==
  (pc = "rows" /\ idx < Len(df) /\ idx' = idx + 1) =>
    LET Followed(row, i) ==
          (RowAccepted(row[ctx.serial_column]) /\ i # 0) =>
            \A c \in 1..Len(ctx.columns) :
              LET Kept(key, value) ==
                    (value # None /\ Truthy(key)) =>
                      /\ HasKey(combined_data'[i].raw_data, key)
                      /\ Get(combined_data'[i].raw_data, key)
                           = AfterSighting(Get(combined_data[i].raw_data, key), value) IN
              Kept(ExistingKey(combined_data[i].raw_data, ctx.columns[c]), clean_value(row[c])) IN
    Followed(df[idx + 1], IndexOf(combined_data, SerialOfCell(df[idx + 1][ctx.serial_column])))

\* A record of the run is upserted onto a stored asset: every stored field
\* the record carries follows AfterSighting.
UpsertFollowsAlgebra ==
  pc = "upsert" =>
    \A i \in 1..Len(assets) : \A j \in 1..Len(results) :
      assets[i].serial_number = results[j].serial_number =>
        \A key \in DataKeys(results[j].raw_data) :
          LET Kept(stored_key) ==
                Truthy(stored_key) =>
                  /\ HasKey(assets'[i].raw_data, stored_key)
                  /\ Get(assets'[i].raw_data, stored_key)
                       = AfterSighting(Get(assets[i].raw_data, stored_key),
                                       Get(results[j].raw_data, key)) IN
          Kept(ExistingKey(assets[i].raw_data, key))

(***************************************************************************)
(* C29: after every sighting of a value for a field an identity already    *)
(* has, in a later row of the run or in a later upload, the stored field   *)
(* is unchanged exactly when the value equals the whole stored value, and  *)
(* is otherwise the stored value, " | " and the value (so the sightings    *)
(* A, B, B leave A | B | B).                                               *)
(***************************************************************************)
C29_FieldAlgebra ==
  [][RowFollowsAlgebra /\ UpsertFollowsAlgebra]_vars
====
